---- MODULE Spec2Model ----
(***************************************************************************)
(* Job/operation distribution pipeline of distributed-job-system-rs.       *)
(*                                                                         *)
(* client-application: POST/DELETE/GET /api/jobs handlers, the job and     *)
(* operation repositories (MongoDB collections "job" and "operation"),     *)
(* the background fan-out of a job's operations onto the request topic.    *)
(* server-application: the worker pool consuming the request topic.        *)
(*                                                                         *)
(* Conventions                                                             *)
(*   Option<T>     None is <<>>, Some(x) is <<x>>.                         *)
(*   ObjectId      a natural number >= 1; the hex string of an ObjectId    *)
(*                 is the same number, and the empty string that           *)
(*                 Operation::id() returns for id = None is 0.             *)
(*   request body  a sequence of tokens, each either the text of a line    *)
(*                 or NL, the line terminator.                             *)
(***************************************************************************)
EXTENDS Integers, Sequences, FiniteSets, Bags, TLC

\* Number of POST /api/jobs and DELETE /api/jobs/{id} requests of a run
\* (GET requests are not counted: they change nothing).
MaxRequests == 2

\* Number of messages a second delivery hands to a worker in a run.
MaxRedeliveries == 1

\* Number of records other producers write to the request topic in a run.
MaxMessages == 3

\* Largest batch_size a call of get_batch_operations is given.
MaxBatchSize == 2

\* Number of calls of get_batch_operations in a run.
MaxCalls == 2

\* Largest page and size query parameters a request carries.
MaxPageParam == 3

MaxSizeParam == 102

\* Longest request or result text of a message put on the wire.
MaxTextLen == 2

\* Receive errors the broker client reports beyond one per message.
MaxRecvErrors == 1

\* Page sizes of the calls of get_operations.
MaxListSize == 2

\* Width of usize in the model; the arithmetic on it is taken modulo
\* 2^UsizeBits.
UsizeBits == 16

NL == "\n"

\* Request bodies the submissions draw from: the empty body, one terminated
\* line, and two lines of which the last is not terminated.
Bodies ==
    { <<>>,
      <<"1+1", NL>>,
      <<"1+1", NL, "10/0">> }

\* Result strings a result message may carry into update_operation.
MergeResults == {"", "2"}

None == <<>>

Some(x) == <<x>>

\* Request slots, and the ObjectIds the job collection can assign in a run.
JobIds == 1..MaxRequests

VARIABLES
    jobs,           \* collection "job": set of [id, operations]
    operations,     \* collection "operation": set of [id, job_id, request, result]
    nextJobId,      \* next ObjectId the store assigns in "job"
    nextOperationId,\* next ObjectId the store assigns in "operation"
    inserted,       \* history: every operation document ever persisted
    submit,         \* create_job_endpoint_handler, one per POST request
    fanout,         \* background task spawned by each submission
    sends,          \* send_operation_request tasks in flight
    requestTopic,   \* messages on application.operation.request, in order
    producerSent,   \* MESSAGE_SENT_COUNTER
    producerErrors, \* MESSAGE_ERROR_COUNTER
    del,            \* delete_job_endpoint_handler, one per DELETE request
    cascade,        \* background delete_operations tasks: [job_id, pc]
    log,            \* errors logged by background tasks
    getJob,         \* get_job_endpoint_handler
    worker,         \* worker_consumer loops, one per subscription
    delivered,      \* offsets of the request topic handed to a worker
    redelivered,    \* offsets handed to a worker a second time
    storedOffsets,  \* per subscription: the offset store_offset marked last
    committed,      \* highest offset the group's committed position covers
    consumerErrors, \* MESSAGE_ERROR_COUNTER of the consumer
    dispatched,     \* history: bag of [offset, operation] given to the
                    \* result publisher
    resultSends,    \* bag of send_operation_result tasks in flight
    resultTopic,    \* messages on the result topic, in order
    merged,         \* offsets of the result topic already merged
    stream,         \* one call of get_batch_operations with its handler
    lookup,         \* the last call of get_operation or update_operation
    page,           \* PageParams of a request and the values read from them
    wire,           \* a message, its text on the topic and what is decoded
    tracing,        \* should_instrument_kafka() of the client and the server
    spans,          \* history: processing spans opened, [offset, parent]
    list,           \* one call of get_jobs or get_operations
    otel,           \* the environment and ENABLE_OTEL_TRACES of the server
    reported        \* history: ids of the jobs get_job has reported Completed

serverVars == << worker, delivered, redelivered, storedOffsets, committed,
                 consumerErrors, dispatched, resultSends, resultTopic,
                 merged >>

clientVars == << jobs, operations, nextJobId, nextOperationId, inserted,
                 submit, fanout, sends, producerSent, producerErrors, del,
                 cascade, log, getJob >>

\* Calls of single repository and model functions
queryVars == << stream, lookup, page, wire, tracing, spans, list,
               otel, reported >>

vars == << jobs, operations, nextJobId, nextOperationId, inserted, submit,
           fanout, sends, requestTopic, producerSent, producerErrors, del,
           cascade, log, getJob, serverVars, queryVars >>

----------------------------------------------------------------------------
\* Pure functions

\* Text of one piece between line terminators (at most one token in Bodies).
LineText(piece) == IF piece = <<>> THEN "" ELSE piece[1]

\* Pieces of the body separated by NL, the last one possibly empty.
RECURSIVE SplitNL(_, _)
SplitNL(body, cur) ==
    IF body = <<>> THEN << cur >>
    ELSE IF Head(body) = NL THEN << cur >> \o SplitNL(Tail(body), <<>>)
    ELSE SplitNL(Tail(body), Append(cur, Head(body)))

\* str::lines(): split on the line terminator; a final empty piece (the body
\* is empty or ends with the terminator) is not a line.
Lines(body) ==
    LET pieces == SplitNL(body, <<>>)
        kept   == IF pieces[Len(pieces)] = <<>>
                  THEN SubSeq(pieces, 1, Len(pieces) - 1)
                  ELSE pieces
    IN  [i \in 1..Len(kept) |-> LineText(kept[i])]

\* Mutant: the job counts one operation less than the lines it was built from.
NewJobCountsOneLess(n) ==
    [id |-> None, operations |-> IF n > 0 THEN n - 1 ELSE 0]

\* Job::new_job
NewJob(n) == [id |-> None, operations |-> n]

\* Operation::new_operation
NewOperation(job_id, request) ==
    [id |-> None, job_id |-> job_id, request |-> request, result |-> None]

\* Job::status
JobStatus(job, total_finished) ==
    IF total_finished = job.operations THEN "Completed" ELSE "InProgress"

\* NewJobResponse::new
NewJobResponse(id, created_operations) ==
    [id |-> id, created_operations |-> created_operations,
     status |-> "InProgress"]

\* JobResponse::new
JobResponse(job, total_completed_operations) ==
    [id |-> job.id, operations |-> job.operations,
     status |-> JobStatus(job, total_completed_operations)]

\* Operation::id(): the hex id, or the default (empty) string when id is None
OperationIdOf(op) == IF op.id = None THEN 0 ELSE op.id[1]

\* impl From<Operation> for OperationRequest
OperationRequestFrom(op) ==
    [job_id |-> op.job_id, operation_id |-> OperationIdOf(op),
     request |-> op.request]

\* FutureRecord::to(TOPIC_NAME).payload(text): the record holds the bytes of
\* a Rust string, which are UTF-8.
KafkaMessage(text, headers) ==
    [payload |-> Some([valid_utf8 |-> TRUE, text |-> text]),
     headers |-> headers]

\* The context of the span messaging.send that the send task of an
\* operation opens.
SendSpanContext(op) ==
    [span |-> "messaging.send", operation_id |-> OperationIdOf(op)]

\* propagator.inject_context into KafkaHeaderContextInjector, then
\* OwnedHeaders::from: the context as key/value headers.
Inject(context) == << <<"traceparent", context>>, <<"tracestate", "">> >>

\* Display for OperationRequest: the JSON object, as its key/value pairs
RequestToString(m) ==
    << <<"job_id", m.job_id>>, <<"operation_id", m.operation_id>>,
       <<"request", m.request>> >>

----------------------------------------------------------------------------
\* Repositories

\* JobRepository::get_job, find_one {_id: ObjectId::parse_str(job_id)}:
\* Some(job) or None (Document not found)
FindJob(job_id) ==
    IF \E j \in jobs : j.id = Some(job_id)
    THEN Some(CHOOSE j \in jobs : j.id = Some(job_id))
    ELSE None

\* Operations of a job, the filter {job_id: ...}
OperationsOf(job_id) == {o \in operations : o.job_id = job_id}

\* Mutant: the count filters on the result only, not on the job.
CountCompletedOfAnyJob(job_id) ==
    Cardinality({o \in operations :
                    o.result # None /\ o.result # Some("")})

\* OperationRepository::get_total_completed_operations:
\* count_documents {job_id, result: {$exists: true, $ne: ""}}
CountCompleted(job_id) ==
    Cardinality({o \in OperationsOf(job_id) :
                    o.result # None /\ o.result # Some("")})

\* Documents insert_many writes for the handler's list: the store assigns
\* the ids nextOperationId, nextOperationId + 1, ... in list order.
Documents(new_operations) ==
    [i \in 1..Len(new_operations) |->
        [new_operations[i] EXCEPT !.id = Some(nextOperationId + i - 1)]]

Range(s) == {s[i] : i \in 1..Len(s)}

\* Job::id()
JobIdOf(job) == IF job.id = None THEN 0 ELSE job.id[1]

\* The cursor of find({job_id}).batch_size(n) chunked by try_chunks(n): the
\* next chunk holds the first n documents of the job, in id order, after the
\* last document already returned.
RECURSIVE TakeInOrder(_, _)
TakeInOrder(docs, n) ==
    IF docs = {} \/ n = 0 THEN <<>>
    ELSE LET first == CHOOSE o \in docs :
                          \A p \in docs : OperationIdOf(o) <= OperationIdOf(p)
         IN  << first >> \o TakeInOrder(docs \ {first}, n - 1)

NextChunk(job_id, last, batch_size) ==
    TakeInOrder({o \in OperationsOf(job_id) : OperationIdOf(o) > last},
                batch_size)

\* const CONCURRENCY: usize = 10
CONCURRENCY == 10

Workers == 1..CONCURRENCY

Ok(x) == << "Ok", x >>

Err(e) == << "Err", e >>

\* A handler's Result once it returned: Ok(..) or Err(..)
IsOk(response) == response # None /\ response[1][1] = "Ok"

IsErr(response) == response # None /\ response[1][1] = "Err"

----------------------------------------------------------------------------
\* Neither variable is set in the environment of the process.
NoEnv == [OTEL_TRACES_SAMPLER |-> None, OTEL_TRACES_SAMPLER_ARG |-> None]

\* The process has not asked for the tracing decision yet.
NoOtel ==
    [env |-> NoEnv, cell |-> None, first_env |-> None, returned |-> <<>>]

\* No call of get_jobs or get_operations has been made.
NoList ==
    [pc |-> "idle", call |-> "none", job_id |-> 0, page |-> 0,
     page_size |-> 0, skip |-> 0, items |-> <<>>, response |-> None]

\* State after construction: empty collections, no request received.

\* No request has been received and no task runs.
InitTasks ==
    /\ submit = [s \in JobIds |->
                    [pc |-> "idle", body |-> <<>>, job_id |-> 0,
                     insert_err |-> FALSE, response |-> None]]
    /\ fanout = [s \in JobIds |-> [pc |-> "none", last |-> 0, batch |-> <<>>]]
    /\ sends = {}
    /\ requestTopic = <<>>
    /\ producerSent = 0
    /\ producerErrors = 0
    /\ del = [d \in JobIds |->
                 [pc |-> "idle", job_id |-> 0, response |-> None]]
    /\ cascade = {}
    /\ log = {}
    /\ getJob = [pc |-> "idle", job_id |-> 0, job |-> None, response |-> None]
    /\ worker = [w \in Workers |-> [pc |-> "recv", offset |-> 0]]
    /\ delivered = {}
    /\ redelivered = {}
    /\ storedOffsets = [w \in Workers |-> 0]
    /\ committed = 0
    /\ consumerErrors = 0
    /\ dispatched = EmptyBag
    /\ resultSends = EmptyBag
    /\ resultTopic = <<>>
    /\ merged = {}
    /\ stream = [pc |-> "idle", calls |-> 0, job_id |-> 0, batch_size |-> 0,
                 last |-> 0, returned |-> <<>>, buffer |-> <<>>,
                 batch |-> <<>>, eof |-> FALSE, handled |-> <<>>,
                 result |-> None]
    /\ lookup = [call |-> "none", job_id |-> 0, operation_id |-> 0,
                 result |-> "", response |-> None]
    /\ spans = {}
    /\ list = NoList
    /\ reported = {}

InitProgram ==
    /\ jobs = {}
    /\ operations = {}
    /\ nextJobId = 1
    /\ nextOperationId = 1
    /\ inserted = {}
    /\ InitTasks
    /\ otel = NoOtel

\* No query parameters read, no message on the wire.
NoPage == [params |-> [page |-> None, size |-> None], effective |-> None]

NoWire == [kind |-> "none", message |-> <<>>, text |-> None,
           decoded |-> None]

\* Neither OTEL_TRACES_SAMPLER nor OTEL_TRACES_SAMPLER_ARG is set: tracing is
\* enabled in both processes.
TracingDefault == [client |-> TRUE, server |-> TRUE]

Init ==
    /\ InitProgram
    /\ page = NoPage
    /\ wire = NoWire
    /\ tracing = TracingDefault

----------------------------------------------------------------------------
\* POST /api/jobs: JobController::create_job_endpoint_handler

\* const CHUNK_SIZE: u32 = 128
CHUNK_SIZE == 128

\* Mutant: the first line of the body gets no operation.
NewOperationsSkipFirst(job_id, body) ==
    LET lines == Lines(body)
    IN  [i \in 1..(Len(lines) - 1) |-> NewOperation(job_id, lines[i + 1])]

\* Mutant: the operations take the id of the job built in memory (None, the
\* empty string) instead of the id insert_job returned.
NewOperationsOfUnsavedJob(job_id, body) ==
    LET lines == Lines(body)
    IN  [i \in 1..Len(lines) |->
            NewOperation(JobIdOf(NewJob(Len(lines))), lines[i])]

\* The list the handler builds from the body, one new operation per line.
NewOperations(job_id, body) ==
    LET lines == Lines(body)
    IN  [i \in 1..Len(lines) |-> NewOperation(job_id, lines[i])]

\* POST requests are numbered in their order of arrival, and request s is
\* received once the handler of request s - 1 has returned (the background
\* tasks of earlier requests are still running). Two handlers share no
\* document: each works on the job id the store returned to it.
Arrived(s) == IF s = 1 THEN TRUE ELSE submit[s - 1].pc = "done"

\* Requests received so far.
Received ==
    Cardinality({s \in JobIds : submit[s].pc # "idle"})
        + Cardinality({d \in JobIds : del[d].pc # "idle"})

\* The handler receives a body; insert_job succeeds and returns the new id.
InsertJobOk(s, body) ==
    /\ submit[s].pc = "idle"
    /\ Arrived(s)
    /\ Received < MaxRequests
    /\ LET lines   == Len(Lines(body))
           new_job == NewJob(lines)
       IN  /\ jobs' = jobs \cup {[new_job EXCEPT !.id = Some(nextJobId)]}
           /\ submit' = [submit EXCEPT ![s] =
                            [@ EXCEPT !.pc = "insert_operations",
                                      !.body = body,
                                      !.job_id = nextJobId]]
    /\ nextJobId' = nextJobId + 1
    /\ UNCHANGED << operations, nextOperationId, inserted, fanout, sends,
                    requestTopic, producerSent, producerErrors, del, cascade,
                    log, getJob,
                    serverVars, queryVars >>

\* insert_job fails: the `?` returns the storage error to the caller.
InsertJobErr(s, body) ==
    /\ submit[s].pc = "idle"
    /\ Arrived(s)
    /\ Received < MaxRequests
    /\ submit' = [submit EXCEPT ![s] =
                     [@ EXCEPT !.pc = "done", !.body = body,
                               !.response = Some(Err("Storage"))]]
    /\ UNCHANGED << jobs, operations, nextJobId, nextOperationId, inserted,
                    fanout, sends, requestTopic, producerSent, producerErrors,
                    del, cascade, log, getJob,
                    serverVars, queryVars >>

\* insert_operations (insert_many) succeeds: every document is persisted.
InsertOperationsOk(s) ==
    /\ submit[s].pc = "insert_operations"
    /\ LET docs == Documents(NewOperations(submit[s].job_id, submit[s].body))
       IN  /\ operations' = operations \cup Range(docs)
           /\ inserted' = inserted \cup Range(docs)
           /\ nextOperationId' = nextOperationId + Len(docs)
    /\ submit' = [submit EXCEPT ![s].pc = "spawn"]
    /\ UNCHANGED << jobs, nextJobId, fanout, sends, requestTopic,
                    producerSent, producerErrors, del, cascade, log, getJob,
                    serverVars, queryVars >>

\* insert_operations fails: insert_many is not atomic, any subset of the
\* documents may have been persisted; the handler goes on to delete the job.
InsertOperationsErr(s) ==
    /\ submit[s].pc = "insert_operations"
    /\ LET docs == Documents(NewOperations(submit[s].job_id, submit[s].body))
       IN  \E persisted \in SUBSET Range(docs) :
           /\ operations' = operations \cup persisted
           /\ inserted' = inserted \cup persisted
           /\ nextOperationId' = nextOperationId + Len(docs)
    /\ submit' = [submit EXCEPT ![s] =
                     [@ EXCEPT !.pc = "delete_job", !.insert_err = TRUE]]
    /\ UNCHANGED << jobs, nextJobId, fanout, sends, requestTopic,
                    producerSent, producerErrors, del, cascade, log, getJob,
                    serverVars, queryVars >>

\* Mutant: after the compensation the handler answers without the fan-out.
CompensateOkNoFanOut(s) ==
    /\ submit[s].pc = "delete_job"
    /\ FindJob(submit[s].job_id) # None
    /\ jobs' = jobs \ {FindJob(submit[s].job_id)[1]}
    /\ submit' = [submit EXCEPT ![s].pc = "respond"]
    /\ UNCHANGED << operations, nextJobId, nextOperationId, inserted, fanout,
                    sends, requestTopic, producerSent, producerErrors, del,
                    cascade, log, getJob, serverVars, queryVars >>

\* Mutant: the compensation also retracts the operations of the job.
CompensateOkRetracts(s) ==
    /\ submit[s].pc = "delete_job"
    /\ FindJob(submit[s].job_id) # None
    /\ jobs' = jobs \ {FindJob(submit[s].job_id)[1]}
    /\ operations' = operations \ OperationsOf(submit[s].job_id)
    /\ submit' = [submit EXCEPT ![s].pc = "spawn"]
    /\ UNCHANGED << nextJobId, nextOperationId, inserted, fanout, sends,
                    requestTopic, producerSent, producerErrors, del, cascade,
                    log, getJob, serverVars, queryVars >>

\* The compensating delete_job succeeds: the job document is removed and the
\* handler falls through to the fan-out.
CompensateOk(s) ==
    /\ submit[s].pc = "delete_job"
    /\ FindJob(submit[s].job_id) # None
    /\ jobs' = jobs \ {FindJob(submit[s].job_id)[1]}
    /\ submit' = [submit EXCEPT ![s].pc = "spawn"]
    /\ UNCHANGED << operations, nextJobId, nextOperationId, inserted, fanout,
                    sends, requestTopic, producerSent, producerErrors, del,
                    cascade, log, getJob,
                    serverVars, queryVars >>

\* The compensating delete_job fails (storage error, or Document not found
\* when the job is already gone): the `?` returns the error to the caller.
CompensateErr(s, e) ==
    /\ submit[s].pc = "delete_job"
    /\ e = "NotFound" <=> FindJob(submit[s].job_id) = None
    /\ submit' = [submit EXCEPT ![s] =
                     [@ EXCEPT !.pc = "done", !.response = Some(Err(e))]]
    /\ UNCHANGED << jobs, operations, nextJobId, nextOperationId, inserted,
                    fanout, sends, requestTopic, producerSent, producerErrors,
                    del, cascade, log, getJob,
                    serverVars, queryVars >>

\* tokio::spawn of the fan-out task; the handler does not await it.
SpawnFanOut(s) ==
    /\ submit[s].pc = "spawn"
    /\ fanout' = [fanout EXCEPT ![s].pc = "find"]
    /\ submit' = [submit EXCEPT ![s].pc = "respond"]
    /\ UNCHANGED << jobs, operations, nextJobId, nextOperationId, inserted,
                    sends, requestTopic, producerSent, producerErrors, del,
                    cascade, log, getJob,
                    serverVars, queryVars >>

\* Mutant: the handler awaits the fan-out task before it answers.
RespondAfterFanOut(s) ==
    /\ submit[s].pc = "respond"
    /\ fanout[s].pc = "done"
    /\ sends = {}
    /\ submit' = [submit EXCEPT ![s] =
                     [@ EXCEPT !.pc = "done",
                               !.response =
                                   Some(Ok(NewJobResponse(
                                       submit[s].job_id,
                                       Len(requestTopic))))]]
    /\ UNCHANGED << jobs, operations, nextJobId, nextOperationId, inserted,
                    fanout, sends, requestTopic, producerSent, producerErrors,
                    del, cascade, log, getJob, serverVars, queryVars >>

\* Ok(Json(NewJobResponse::new(job_id, new_job.operations())))
Respond(s) ==
    /\ submit[s].pc = "respond"
    /\ submit' = [submit EXCEPT ![s] =
                     [@ EXCEPT !.pc = "done",
                               !.response =
                                   Some(Ok(NewJobResponse(
                                       submit[s].job_id,
                                       NewJob(Len(Lines(submit[s].body)))
                                           .operations)))]]
    /\ UNCHANGED << jobs, operations, nextJobId, nextOperationId, inserted,
                    fanout, sends, requestTopic, producerSent, producerErrors,
                    del, cascade, log, getJob,
                    serverVars, queryVars >>

----------------------------------------------------------------------------
\* The fan-out task: get_batch_operations(job_id, CHUNK_SIZE, handler)

\* Mutant: the fan-out publishes the list the handler built in memory.
HandlerPublishesNewOperations(s, batch) ==
    Range(NewOperations(submit[s].job_id, submit[s].body))

\* What the handler closure hands to send_operation_request for a chunk:
\* the operations read from the store.
HandlerPublishes(s, batch) == Range(batch)

\* chunked.try_next() returns a chunk read from the store.
FanOutChunk(s) ==
    /\ fanout[s].pc = "find"
    /\ LET chunk == NextChunk(submit[s].job_id, fanout[s].last, CHUNK_SIZE)
       IN  fanout' = [fanout EXCEPT ![s] =
                         IF chunk = <<>>
                         THEN [@ EXCEPT !.pc = "done"]
                         ELSE [@ EXCEPT !.pc = "handle", !.batch = chunk]]
    /\ UNCHANGED << jobs, operations, nextJobId, nextOperationId, inserted,
                    submit, sends, requestTopic, producerSent, producerErrors,
                    del, cascade, log, getJob,
                    serverVars, queryVars >>

\* The cursor fails: get_batch_operations returns the error, the task logs it.
FanOutCursorErr(s) ==
    /\ fanout[s].pc = "find"
    /\ fanout' = [fanout EXCEPT ![s].pc = "done"]
    /\ log' = log \cup {[task |-> "fanout", job_id |-> submit[s].job_id,
                         error |-> "Storage"]}
    /\ UNCHANGED << jobs, operations, nextJobId, nextOperationId, inserted,
                    submit, sends, requestTopic, producerSent, producerErrors,
                    del, cascade, getJob,
                    serverVars, queryVars >>

\* for op in batch { handler(op).await }: each call spawns one send task and
\* returns. A chunk shorter than the chunk size ended the stream.
FanOutHandle(s) ==
    /\ fanout[s].pc = "handle"
    /\ sends' = sends \cup HandlerPublishes(s, fanout[s].batch)
    /\ fanout' = [fanout EXCEPT ![s] =
                     [pc |-> IF Len(fanout[s].batch) < CHUNK_SIZE
                             THEN "done" ELSE "find",
                      last |-> OperationIdOf(
                                   fanout[s].batch[Len(fanout[s].batch)]),
                      batch |-> <<>>]]
    /\ UNCHANGED << jobs, operations, nextJobId, nextOperationId, inserted,
                    submit, requestTopic, producerSent, producerErrors, del,
                    cascade, log, getJob,
                    serverVars, queryVars >>

----------------------------------------------------------------------------
\* MessageProducer::send_operation_request: the spawned send task

\* producer.send succeeds: the message is on the topic, the sent counter
\* is incremented.
SendOk(op) ==
    /\ op \in sends
    /\ sends' = sends \ {op}
    /\ requestTopic' =
           Append(requestTopic,
                  KafkaMessage(RequestToString(OperationRequestFrom(op)),
                               IF tracing.client
                               THEN Some(Inject(SendSpanContext(op)))
                               ELSE None))
    /\ producerSent' = producerSent + 1
    /\ UNCHANGED << jobs, operations, nextJobId, nextOperationId, inserted,
                    submit, fanout, producerErrors, del, cascade, log,
                    getJob,
                    serverVars, queryVars >>

\* Mutant: a failed send is counted and attempted again.
SendErrRetries(op) ==
    /\ op \in sends
    /\ producerErrors < 2 * MaxRequests
    /\ producerErrors' = producerErrors + 1
    /\ UNCHANGED << jobs, operations, nextJobId, nextOperationId, inserted,
                    submit, fanout, sends, requestTopic, producerSent, del,
                    cascade, log, getJob,
                    serverVars, queryVars >>

\* producer.send fails (queue timeout or broker error): logged and counted.
SendErr(op) ==
    /\ op \in sends
    /\ sends' = sends \ {op}
    /\ producerErrors' = producerErrors + 1
    /\ UNCHANGED << jobs, operations, nextJobId, nextOperationId, inserted,
                    submit, fanout, requestTopic, producerSent, del, cascade,
                    log, getJob,
                    serverVars, queryVars >>

----------------------------------------------------------------------------
\* DELETE /api/jobs/{id}: JobController::delete_job_endpoint_handler

\* DELETE requests are numbered in their order of arrival.
DeleteArrived(d) == IF d = 1 THEN TRUE ELSE del[d - 1].pc # "idle"

\* Mutant: delete_job succeeds whatever deleted_count is.
DeleteJobOkIgnoresDeletedCount(d, job_id) ==
    /\ del[d].pc = "idle"
    /\ DeleteArrived(d)
    /\ Received < MaxRequests
    /\ jobs' = {j \in jobs : j.id # Some(job_id)}
    /\ del' = [del EXCEPT ![d] = [@ EXCEPT !.pc = "spawn", !.job_id = job_id]]
    /\ UNCHANGED << operations, nextJobId, nextOperationId, inserted, submit,
                    fanout, sends, requestTopic, producerSent, producerErrors,
                    cascade, log, getJob, serverVars, queryVars >>

\* JobRepository::delete_job succeeds: delete_one removed the job document.
DeleteJobOk(d, job_id) ==
    /\ del[d].pc = "idle"
    /\ DeleteArrived(d)
    /\ Received < MaxRequests
    /\ FindJob(job_id) # None
    /\ jobs' = jobs \ {FindJob(job_id)[1]}
    /\ del' = [del EXCEPT ![d] = [@ EXCEPT !.pc = "spawn", !.job_id = job_id]]
    /\ UNCHANGED << operations, nextJobId, nextOperationId, inserted, submit,
                    fanout, sends, requestTopic, producerSent, producerErrors,
                    cascade, log, getJob,
                    serverVars, queryVars >>

\* Mutant: the handler spawns the deletion of the operations although
\* delete_job failed.
DeleteJobErrStartsCascade(d, job_id, e) ==
    /\ del[d].pc = "idle"
    /\ DeleteArrived(d)
    /\ Received < MaxRequests
    /\ e = "NotFound" <=> FindJob(job_id) = None
    /\ cascade' = cascade \cup {[job_id |-> job_id, pc |-> "spawned"]}
    /\ del' = [del EXCEPT ![d] =
                  [pc |-> "done", job_id |-> job_id,
                   response |-> Some(Err(e))]]
    /\ UNCHANGED << jobs, operations, nextJobId, nextOperationId, inserted,
                    submit, fanout, sends, requestTopic, producerSent,
                    producerErrors, log, getJob, serverVars, queryVars >>

\* delete_job fails (storage error, or Document not found when
\* deleted_count is 0): the `?` returns the error, nothing is spawned.
DeleteJobErr(d, job_id, e) ==
    /\ del[d].pc = "idle"
    /\ DeleteArrived(d)
    /\ Received < MaxRequests
    /\ e = "NotFound" <=> FindJob(job_id) = None
    /\ del' = [del EXCEPT ![d] =
                  [pc |-> "done", job_id |-> job_id,
                   response |-> Some(Err(e))]]
    /\ UNCHANGED << jobs, operations, nextJobId, nextOperationId, inserted,
                    submit, fanout, sends, requestTopic, producerSent,
                    producerErrors, cascade, log, getJob,
                    serverVars, queryVars >>

\* tokio::spawn of the task deleting the job's operations.
DeleteSpawn(d) ==
    /\ del[d].pc = "spawn"
    /\ cascade' = cascade \cup {[job_id |-> del[d].job_id, pc |-> "spawned"]}
    /\ del' = [del EXCEPT ![d].pc = "respond"]
    /\ UNCHANGED << jobs, operations, nextJobId, nextOperationId, inserted,
                    submit, fanout, sends, requestTopic, producerSent,
                    producerErrors, log, getJob,
                    serverVars, queryVars >>

\* Mutant: the handler awaits delete_operations before it answers, and
\* returns its error.
DeleteRespondAfterCascade(d) ==
    /\ del[d].pc = "respond"
    /\ [job_id |-> del[d].job_id, pc |-> "done"] \in cascade
    /\ del' = [del EXCEPT ![d] =
                  [@ EXCEPT !.pc = "done",
                            !.response =
                                IF \E l \in log : l.task = "cascade"
                                                  /\ l.job_id = del[d].job_id
                                THEN Some(Err("Storage"))
                                ELSE Some(Ok("empty"))]]
    /\ UNCHANGED << jobs, operations, nextJobId, nextOperationId, inserted,
                    submit, fanout, sends, requestTopic, producerSent,
                    producerErrors, cascade, log, getJob, serverVars,
                    queryVars >>

\* Ok(Body::empty())
DeleteRespond(d) ==
    /\ del[d].pc = "respond"
    /\ del' = [del EXCEPT ![d] =
                  [@ EXCEPT !.pc = "done", !.response = Some(Ok("empty"))]]
    /\ UNCHANGED << jobs, operations, nextJobId, nextOperationId, inserted,
                    submit, fanout, sends, requestTopic, producerSent,
                    producerErrors, cascade, log, getJob,
                    serverVars, queryVars >>

\* OperationRepository::delete_operations in the background task:
\* delete_many {job_id} removed at least one document.
CascadeOk(job_id) ==
    /\ [job_id |-> job_id, pc |-> "spawned"] \in cascade
    /\ OperationsOf(job_id) # {}
    /\ operations' = operations \ OperationsOf(job_id)
    /\ cascade' = (cascade \ {[job_id |-> job_id, pc |-> "spawned"]})
                      \cup {[job_id |-> job_id, pc |-> "done"]}
    /\ UNCHANGED << jobs, nextJobId, nextOperationId, inserted, submit,
                    fanout, sends, requestTopic, producerSent, producerErrors,
                    del, log, getJob,
                    serverVars, queryVars >>

\* delete_operations fails (storage error, or Document not found when
\* deleted_count is 0): the task logs the error.
CascadeErr(job_id, e) ==
    /\ [job_id |-> job_id, pc |-> "spawned"] \in cascade
    /\ e = "NotFound" <=> OperationsOf(job_id) = {}
    /\ cascade' = (cascade \ {[job_id |-> job_id, pc |-> "spawned"]})
                      \cup {[job_id |-> job_id, pc |-> "done"]}
    /\ log' = log \cup {[task |-> "cascade", job_id |-> job_id, error |-> e]}
    /\ UNCHANGED << jobs, operations, nextJobId, nextOperationId, inserted,
                    submit, fanout, sends, requestTopic, producerSent,
                    producerErrors, del, getJob,
                    serverVars, queryVars >>

----------------------------------------------------------------------------
\* GET /api/jobs/{id}: JobController::get_job_endpoint_handler

\* get_job finds the job; the handler goes on to count.
GetJobFound(job_id) ==
    /\ getJob.pc \in {"idle", "done"}
    /\ FindJob(job_id) # None
    /\ getJob' = [pc |-> "count", job_id |-> job_id, job |-> FindJob(job_id),
                  response |-> None]
    /\ UNCHANGED << jobs, operations, nextJobId, nextOperationId, inserted,
                    submit, fanout, sends, requestTopic, producerSent,
                    producerErrors, del, cascade, log,
                    serverVars, queryVars >>

\* get_job fails with Document not found.
GetJobNotFound(job_id) ==
    /\ getJob.pc \in {"idle", "done"}
    /\ FindJob(job_id) = None
    /\ getJob' = [pc |-> "done", job_id |-> job_id, job |-> None,
                  response |-> Some(Err("NotFound"))]
    /\ UNCHANGED << jobs, operations, nextJobId, nextOperationId, inserted,
                    submit, fanout, sends, requestTopic, producerSent,
                    producerErrors, del, cascade, log,
                    serverVars, queryVars >>

\* get_total_completed_operations, then Ok(Json(JobResponse::new(..)))
GetJobCount ==
    /\ getJob.pc = "count"
    /\ getJob' = [getJob EXCEPT
                     !.pc = "done",
                     !.response =
                         Some(Ok(JobResponse(getJob.job[1],
                                             CountCompleted(getJob.job_id))))]
    /\ reported' =
           IF JobStatus(getJob.job[1], CountCompleted(getJob.job_id))
                  = "Completed"
           THEN reported \cup {getJob.job_id}
           ELSE reported
    /\ UNCHANGED << jobs, operations, nextJobId, nextOperationId, inserted,
                    submit, fanout, sends, requestTopic, producerSent,
                    producerErrors, del, cascade, log,
                    serverVars, stream, lookup, page, wire, tracing, spans,
                    list, otel >>

----------------------------------------------------------------------------
\* OperationRepository::update_operation, called with the fields of a
\* result message

\* Mutant: the update is an upsert, it inserts a document when none matches.
UpdatedOperationsUpsert(job_id, operation_id, result) ==
    IF \E o \in operations : o.id = Some(operation_id) /\ o.job_id = job_id
    THEN {IF o.id = Some(operation_id) /\ o.job_id = job_id
          THEN [o EXCEPT !.result = Some(result)]
          ELSE o : o \in operations}
    ELSE operations \cup {[id |-> Some(operation_id), job_id |-> job_id,
                           request |-> "", result |-> Some(result)]}

\* Mutant: the result is written as a new document next to the old one.
UpdatedOperationsReinsert(job_id, operation_id, result) ==
    operations \cup
        {[o EXCEPT !.result = Some(result)] :
            o \in {x \in operations :
                      x.id = Some(operation_id) /\ x.job_id = job_id}}

\* Mutant: the update sets the result on every operation of the job.
UpdatedOperationsOfWholeJob(job_id, operation_id, result) ==
    {IF o.job_id = job_id THEN [o EXCEPT !.result = Some(result)] ELSE o :
        o \in operations}

\* Mutant: the update replaces the document instead of setting one field.
UpdatedOperationsReplacesDocument(job_id, operation_id, result) ==
    {IF o.id = Some(operation_id) /\ o.job_id = job_id
     THEN [o EXCEPT !.request = "", !.result = Some(result)]
     ELSE o : o \in operations}

\* update_one {_id, job_id} {$set: {result}}: the documents after the call.
UpdatedOperations(job_id, operation_id, result) ==
    {IF o.id = Some(operation_id) /\ o.job_id = job_id
     THEN [o EXCEPT !.result = Some(result)]
     ELSE o : o \in operations}

\* Mutant: the filter is the operation id alone.
MatchedById(job_id, operation_id) ==
    {o \in operations : o.id = Some(operation_id)}

\* Mutant: the filter also requires that the document has no result yet.
MatchedWithoutResult(job_id, operation_id) ==
    {o \in operations :
        o.id = Some(operation_id) /\ o.job_id = job_id /\ o.result = None}

\* matched_count of the update.
Matched(job_id, operation_id) ==
    {o \in operations : o.id = Some(operation_id) /\ o.job_id = job_id}

UpdateOperation(job_id, operation_id, result) ==
    /\ Matched(job_id, operation_id) # {}
    /\ operations' = UpdatedOperations(job_id, operation_id, result)
    /\ UNCHANGED << jobs, nextJobId, nextOperationId, inserted, submit,
                    fanout, sends, requestTopic, producerSent, producerErrors,
                    del, cascade, log, getJob,
                    serverVars, queryVars >>

\* ObjectId::parse_str(operation_id): the id 0 stands for a string that is
\* not the hex form of an ObjectId (such as the empty default id); parsing
\* it fails.
ParseObjectId(operation_id) ==
    IF operation_id = 0 THEN Err("InvalidId") ELSE Ok(operation_id)

\* OperationRepository::get_operation: find_one {_id, job_id}; the store is
\* only read.
GetOperation(job_id, operation_id) ==
    /\ lookup' =
           [call |-> "get", job_id |-> job_id, operation_id |-> operation_id,
            result |-> "",
            response |->
                IF ParseObjectId(operation_id)[1] = "Err"
                THEN Some(ParseObjectId(operation_id))
                ELSE IF Matched(job_id, operation_id) = {}
                     THEN Some(Err("NotFound"))
                     ELSE Some(Ok(CHOOSE o \in Matched(job_id, operation_id) :
                                      TRUE))]
    /\ UNCHANGED << clientVars, requestTopic, serverVars, stream, page,
                    wire, tracing, spans,
                    list, otel,
                    reported >>

\* OperationRepository::update_operation with its Result: the id is parsed,
\* update_one is run, and a matched_count of 0 is Document not found.
UpdateOperationCall(job_id, operation_id, result) ==
    /\ operations' =
           IF ParseObjectId(operation_id)[1] = "Err" THEN operations
           ELSE UpdatedOperations(job_id, operation_id, result)
    /\ lookup' =
           [call |-> "update", job_id |-> job_id,
            operation_id |-> operation_id, result |-> result,
            response |->
                IF ParseObjectId(operation_id)[1] = "Err"
                THEN Some(ParseObjectId(operation_id))
                ELSE IF Matched(job_id, operation_id) = {}
                     THEN Some(Err("NotFound"))
                     ELSE Some(Ok("()"))]
    /\ UNCHANGED << jobs, nextJobId, nextOperationId, inserted, submit,
                    fanout, sends, requestTopic, producerSent, producerErrors,
                    del, cascade, log, getJob, serverVars, stream, page,
                    wire, tracing, spans,
                    list, otel,
                    reported >>

----------------------------------------------------------------------------
\* http::model::PageParams, read by get_operations_endpoint_handler

DEFAULT_PAGE == 1

DEFAULT_SIZE == 30

MIN_SIZE == 1

MAX_SIZE == 100

\* Option::unwrap_or
UnwrapOr(option, default) == IF option = None THEN default ELSE option[1]

\* Ord::clamp
Clamp(x, min, max) == IF x < min THEN min ELSE IF x > max THEN max ELSE x

\* PageParams::page
PageOf(params) == UnwrapOr(params.page, DEFAULT_PAGE)

\* Mutant: the size is read without the clamp.
SizeOfUnclamped(params) == UnwrapOr(params.size, DEFAULT_SIZE)

\* PageParams::size
SizeOf(params) ==
    Clamp(UnwrapOr(params.size, DEFAULT_SIZE), MIN_SIZE, MAX_SIZE)

\* let page = params.page(); let page_size = params.size();
PageApply ==
    /\ page.effective = None
    /\ page' = [page EXCEPT !.effective =
                   Some([page |-> PageOf(page.params),
                         size |-> SizeOf(page.params)])]
    /\ UNCHANGED << clientVars, requestTopic, serverVars, stream, lookup,
                    wire, tracing, spans,
                    list, otel,
                    reported >>

----------------------------------------------------------------------------
\* JobRepository::get_jobs and OperationRepository::get_operations

\* usize::MAX
USIZE_MAX == 2 ^ UsizeBits - 1

\* (page - 1) * page_size in usize leaves the range of usize: the
\* subtraction for page 0, the multiplication for a large page.
SkipOverflows(page_no, page_size) ==
    page_no = 0 \/ (page_no - 1) * page_size > USIZE_MAX

\* let skip = ((page - 1) * page_size) as u64, where no overflow check
\* stops it: both operations wrap.
WrappingSkip(page_no, page_size) ==
    (((page_no + USIZE_MAX) % (USIZE_MAX + 1)) * page_size)
        % (USIZE_MAX + 1)

\* find(filter).limit(page_size).skip(skip), read to its end: the documents
\* matching the filter, in the order of their ids, without the first skip
\* of them and at most limit of them.
FindPage(documents, skip, limit) ==
    TakeInOrder({o \in documents :
                    Cardinality({p \in documents :
                        OperationIdOf(p) < OperationIdOf(o)}) >= skip},
                limit)

\* Jobs of the page, as find({}) of the job collection returns them.
RECURSIVE JobsInOrder(_, _)
JobsInOrder(docs, n) ==
    IF docs = {} \/ n = 0 THEN <<>>
    ELSE LET first == CHOOSE j \in docs :
                          \A k \in docs : JobIdOf(j) <= JobIdOf(k)
         IN  << first >> \o JobsInOrder(docs \ {first}, n - 1)

FindJobsPage(skip, limit) ==
    JobsInOrder({j \in jobs :
                    Cardinality({k \in jobs : JobIdOf(k) < JobIdOf(j)})
                        >= skip},
                limit)

\* Mutant: the total counts the documents of the listed job only.
EstimatedDocumentCountOfJob ==
    Cardinality(OperationsOf(list.job_id))

\* estimated_document_count() of the collection the call reads, taken as the
\* number of its documents.
EstimatedDocumentCount ==
    IF list.call = "jobs" THEN Cardinality(jobs) ELSE Cardinality(operations)

\* The call computes skip and reads the page with find.
ListFind(call, job_id, page_no, page_size) ==
    /\ list.pc \in {"idle", "done"}
    /\ LET skip == WrappingSkip(page_no, page_size)
       IN  list' = [pc |-> "count", call |-> call, job_id |-> job_id,
                    page |-> page_no, page_size |-> page_size,
                    skip |-> skip,
                    items |-> IF call = "jobs"
                              THEN FindJobsPage(skip, page_size)
                              ELSE FindPage(OperationsOf(job_id), skip,
                                            page_size),
                    response |-> None]
    /\ UNCHANGED << clientVars, requestTopic, serverVars, stream, lookup,
                    page, wire, tracing, spans, otel,
                    reported >>

\* In a build with overflow checks the computation of skip panics when it
\* leaves the range of usize: the call never returns.
ListSkipPanics(call, job_id, page_no, page_size) ==
    /\ list.pc \in {"idle", "done"}
    /\ SkipOverflows(page_no, page_size)
    /\ list' = [pc |-> "done", call |-> call, job_id |-> job_id,
                page |-> page_no, page_size |-> page_size, skip |-> 0,
                items |-> <<>>, response |-> Some(Err("panic"))]
    /\ UNCHANGED << clientVars, requestTopic, serverVars, stream, lookup,
                    page, wire, tracing, spans, otel,
                    reported >>

\* estimated_document_count, then Ok(PageSubset::new(total, items))
ListCount ==
    /\ list.pc = "count"
    /\ list' = [list EXCEPT
                   !.pc = "done",
                   !.response = Some(Ok([total |-> EstimatedDocumentCount,
                                         items |-> list.items]))]
    /\ UNCHANGED << clientVars, requestTopic, serverVars, stream, lookup,
                    page, wire, tracing, spans, otel,
                    reported >>

----------------------------------------------------------------------------
\* server-application: messaging/opentelemetry.rs

\* What std::env::var returns for a variable: Err when it is not set or not
\* Unicode (both None here), Ok(value) otherwise.
SamplerValues ==
    {None, Some("always_on"), Some("always_off"),
     Some("parentbased_always_off"), Some("traceidratio")}

SamplerArgValues == {None, Some("0"), Some("1"), Some("0.5")}

\* The closure of ENABLE_OTEL_TRACES
EnableOtelTraces(env) ==
    IF env.OTEL_TRACES_SAMPLER
           \in {Some("always_off"), Some("parentbased_always_off")}
    THEN FALSE
    ELSE env.OTEL_TRACES_SAMPLER_ARG # Some("0")

\* The environment of the process changes (std::env::set_var, remove_var).
SetEnv(sampler, arg) ==
    /\ otel.env # [OTEL_TRACES_SAMPLER |-> sampler,
                   OTEL_TRACES_SAMPLER_ARG |-> arg]
    /\ otel' = [otel EXCEPT !.env = [OTEL_TRACES_SAMPLER |-> sampler,
                                     OTEL_TRACES_SAMPLER_ARG |-> arg]]
    /\ UNCHANGED << clientVars, requestTopic, serverVars, stream, lookup,
                    page, wire, tracing, spans, list,
                    reported >>

\* Mutant: every call reads the environment.
ShouldInstrumentKafkaReadsEnv ==
    /\ Len(otel.returned) < MaxCalls
    /\ otel' = [otel EXCEPT
                   !.cell = Some(EnableOtelTraces(otel.env)),
                   !.first_env = IF otel.cell = None THEN Some(otel.env)
                                 ELSE @,
                   !.returned = Append(@, EnableOtelTraces(otel.env))]
    /\ UNCHANGED << clientVars, requestTopic, serverVars, stream, lookup,
                    page, wire, tracing, spans, list,
                    reported >>

\* should_instrument_kafka: *ENABLE_OTEL_TRACES. The LazyLock runs its
\* closure at the first dereference and keeps the value.
ShouldInstrumentKafka ==
    /\ Len(otel.returned) < MaxCalls
    /\ LET value == IF otel.cell = None THEN EnableOtelTraces(otel.env)
                    ELSE otel.cell[1]
       IN  otel' = [otel EXCEPT
                       !.cell = Some(value),
                       !.first_env = IF otel.cell = None THEN Some(otel.env)
                                     ELSE @,
                       !.returned = Append(@, value)]
    /\ UNCHANGED << clientVars, requestTopic, serverVars, stream, lookup,
                    page, wire, tracing, spans, list,
                    reported >>

----------------------------------------------------------------------------
\* server-application: MessageConsumer::worker_consumer

\* Value of a key of a JSON object given as its key/value pairs.
Field(payload, key) ==
    payload[CHOOSE k \in 1..Len(payload) : payload[k][1] = key][2]

Keys(payload) == {payload[k][1] : k \in 1..Len(payload)}

\* Mutant: unknown fields are ignored (no deny_unknown_fields).
DecodeRequestIgnoringUnknownFields(payload) ==
    IF {"job_id", "operation_id", "request"} \subseteq Keys(payload)
    THEN Some([job_id |-> Field(payload, "job_id"),
               operation_id |-> Field(payload, "operation_id"),
               request |-> Field(payload, "request")])
    ELSE None

\* OperationRequest::try_from (serde, deny_unknown_fields): the payload
\* decodes when it holds exactly the three fields, each once.
DecodeRequest(payload) ==
    IF Len(payload) = Cardinality(Keys(payload))
       /\ Keys(payload) = {"job_id", "operation_id", "request"}
    THEN Some([job_id |-> Field(payload, "job_id"),
               operation_id |-> Field(payload, "operation_id"),
               request |-> Field(payload, "request")])
    ELSE None

\* evalexpr::eval on the requests of Bodies: a value, or an error.
Eval(request) ==
    CASE request = "1+1" -> Ok("2")
      [] request = "2*3" -> Ok("6")
      [] request = "10/0" -> Err("Error dividing 10 / 0")
      [] OTHER -> Ok("()")

\* Mutant: an evaluation error yields the empty result.
WorkerResultOfValueOnly(request) ==
    IF Eval(request)[1] = "Ok" THEN Eval(request)[2] ELSE ""

\* match evalexpr::eval(..) { Ok(value) => value.to_string(),
\*                            Err(err) => err.to_string() }
WorkerResult(request) == Eval(request)[2]

\* domain::operation::Operation::new of the server
ServerOperation(job_id, operation_id, request, result) ==
    [job_id |-> job_id, operation_id |-> operation_id, request |-> request,
     result |-> result]

\* impl From<Operation> for OperationResult
OperationResultFrom(operation) ==
    [job_id |-> operation.job_id, operation_id |-> operation.operation_id,
     result |-> operation.result]

\* Display for OperationResult: the JSON object, as its key/value pairs
ResultToString(m) ==
    << <<"job_id", m.job_id>>, <<"operation_id", m.operation_id>>,
       <<"result", m.result>> >>

\* OperationResult::try_from of the client (serde, deny_unknown_fields)
DecodeResult(payload) ==
    IF Len(payload) = Cardinality(Keys(payload))
       /\ Keys(payload) = {"job_id", "operation_id", "result"}
    THEN Some([job_id |-> Field(payload, "job_id"),
               operation_id |-> Field(payload, "operation_id"),
               result |-> Field(payload, "result")])
    ELSE None

\* message.payload_view::<str>(): None without payload, Some(Err) when the
\* bytes are not UTF-8, Some(Ok(text)) otherwise.
PayloadView(message) ==
    IF message.payload = None THEN None
    ELSE IF message.payload[1].valid_utf8
         THEN Some(Ok(message.payload[1].text))
         ELSE Some(Err("Utf8Error"))

\* The match of worker_consumer on the payload view: the operation request,
\* or None in the three branches that `continue`.
OperationRequestOf(message) ==
    IF PayloadView(message) = None THEN None
    ELSE IF PayloadView(message)[1][1] = "Err" THEN None
         ELSE DecodeRequest(PayloadView(message)[1][2])

\* KafkaHeaderContextExtractor::get through propagator.extract: the value
\* of the first traceparent header, None without headers or without one.
Extract(headers) ==
    IF headers = None THEN None
    ELSE LET found == {i \in 1..Len(headers[1]) :
                          headers[1][i][1] = "traceparent"}
         IN  IF found = {} THEN None
             ELSE Some(headers[1][CHOOSE i \in found :
                                      \A k \in found : i <= k][2])

\* Mutant: the headers are read whether tracing is enabled or not.
SpanParentExtractsAlways(message) == Extract(message.headers)

\* The parent given to the span messaging.receive: the extracted context
\* when should_instrument_kafka(), no parent otherwise.
SpanParent(message) ==
    IF tracing.server THEN Extract(message.headers) ELSE None

\* Mutant: a subscription takes the next message while it still works on the
\* previous one.
WorkerRecvWhileBusy(w, offset) ==
    /\ \A v \in 1..(w - 1) : worker[v].pc # "recv"
    /\ offset \in (1..Len(requestTopic)) \ delivered
    /\ \A k \in 1..(offset - 1) : k \in delivered
    /\ delivered' = delivered \cup {offset}
    /\ worker' = [worker EXCEPT ![w] = [pc |-> "process", offset |-> offset]]
    /\ spans' = spans \cup {[offset |-> offset,
                              parent |-> SpanParent(requestTopic[offset])]}
    /\ UNCHANGED << clientVars, requestTopic, redelivered, storedOffsets,
                    committed, consumerErrors, dispatched, resultSends,
                    resultTopic, merged, stream, lookup, page, wire,
                    tracing, list, otel,
                    reported >>

\* consumer.recv() returns the next message of the partition: the lowest
\* offset not handed out yet. The subscriptions are interchangeable and keep
\* nothing between two messages: the message goes to the first one waiting
\* in recv.
WorkerRecv(w, offset) ==
    /\ worker[w].pc = "recv"
    /\ \A v \in 1..(w - 1) : worker[v].pc # "recv"
    /\ offset \in (1..Len(requestTopic)) \ delivered
    /\ \A k \in 1..(offset - 1) : k \in delivered
    /\ delivered' = delivered \cup {offset}
    /\ worker' = [worker EXCEPT ![w] = [pc |-> "process", offset |-> offset]]
    /\ spans' = spans \cup {[offset |-> offset,
                              parent |-> SpanParent(requestTopic[offset])]}
    /\ UNCHANGED << clientVars, requestTopic, redelivered, storedOffsets,
                    committed, consumerErrors, dispatched, resultSends,
                    resultTopic, merged, stream, lookup, page, wire,
                    tracing, list, otel,
                    reported >>

\* Mutant: redelivery restarts below the committed position.
WorkerRecvAgainBelowCommitted(w, offset) ==
    /\ worker[w].pc = "recv"
    /\ \A v \in 1..(w - 1) : worker[v].pc # "recv"
    /\ offset \in delivered \ redelivered
    /\ Cardinality(redelivered) < MaxRedeliveries
    /\ redelivered' = redelivered \cup {offset}
    /\ worker' = [worker EXCEPT ![w] = [pc |-> "process", offset |-> offset]]
    /\ spans' = spans \cup {[offset |-> offset,
                              parent |-> SpanParent(requestTopic[offset])]}
    /\ UNCHANGED << clientVars, requestTopic, delivered, storedOffsets,
                    committed, consumerErrors, dispatched, resultSends,
                    resultTopic, merged, stream, lookup, page, wire,
                    tracing, list, otel,
                    reported >>

\* consumer.recv() returns a message a second time: the group delivers at
\* least once, and after a rebalance or a restart a subscription resumes
\* from the committed position, below which nothing is delivered again.
WorkerRecvAgain(w, offset) ==
    /\ worker[w].pc = "recv"
    /\ \A v \in 1..(w - 1) : worker[v].pc # "recv"
    /\ offset \in delivered \ redelivered
    /\ offset > committed
    /\ Cardinality(redelivered) < MaxRedeliveries
    /\ redelivered' = redelivered \cup {offset}
    /\ worker' = [worker EXCEPT ![w] = [pc |-> "process", offset |-> offset]]
    /\ spans' = spans \cup {[offset |-> offset,
                              parent |-> SpanParent(requestTopic[offset])]}
    /\ UNCHANGED << clientVars, requestTopic, delivered, storedOffsets,
                    committed, consumerErrors, dispatched, resultSends,
                    resultTopic, merged, stream, lookup, page, wire,
                    tracing, list, otel,
                    reported >>

\* The operation the worker builds from a decoded request.
WorkerOperation(operation_request) ==
    ServerOperation(operation_request.job_id, operation_request.operation_id,
                    operation_request.request,
                    WorkerResult(operation_request.request))

\* Mutant: a request whose evaluation fails is dropped without a result.
WorkerProcessDropsFailedEvaluation(w) ==
    /\ worker[w].pc = "process"
    /\ LET decoded == OperationRequestOf(requestTopic[worker[w].offset])
       IN  /\ decoded # None
           /\ IF Eval(decoded[1].request)[1] = "Ok"
              THEN /\ resultSends' =
                          resultSends (+)
                              SetToBag({WorkerOperation(decoded[1])})
                   /\ dispatched' =
                          dispatched (+)
                              SetToBag({[offset |-> worker[w].offset,
                                         operation |->
                                             WorkerOperation(decoded[1])]})
              ELSE UNCHANGED << resultSends, dispatched >>
    /\ worker' = [worker EXCEPT ![w].pc = "store_offset"]
    /\ UNCHANGED << clientVars, requestTopic, delivered, redelivered,
                    storedOffsets, committed, consumerErrors, resultTopic,
                    merged, queryVars >>

\* Mutant: the worker stores the offset first and dispatches afterwards.
WorkerProcessStoresOffsetFirst(w) ==
    /\ worker[w].pc = "process"
    /\ OperationRequestOf(requestTopic[worker[w].offset]) # None
    /\ storedOffsets' = [storedOffsets EXCEPT ![w] = worker[w].offset]
    /\ worker' = [worker EXCEPT ![w].pc = "store_offset"]
    /\ UNCHANGED << clientVars, requestTopic, delivered, redelivered,
                    committed, consumerErrors, dispatched, resultSends,
                    resultTopic, merged, queryVars >>

\* The payload decodes: the request is evaluated and the result handed to
\* send_operation_result, which spawns the send and returns.
WorkerProcess(w) ==
    /\ worker[w].pc = "process"
    /\ LET decoded == OperationRequestOf(requestTopic[worker[w].offset])
       IN  /\ decoded # None
           /\ resultSends' =
                  resultSends (+) SetToBag({WorkerOperation(decoded[1])})
           /\ dispatched' =
                  dispatched (+)
                      SetToBag({[offset |-> worker[w].offset,
                                 operation |-> WorkerOperation(decoded[1])]})
    /\ worker' = [worker EXCEPT ![w].pc = "store_offset"]
    /\ UNCHANGED << clientVars, requestTopic, delivered, redelivered,
                    storedOffsets, committed, consumerErrors, resultTopic,
                    merged, queryVars >>

\* Mutant: a receive error ends the loop of the subscription.
WorkerRecvErrBreaks(w) ==
    /\ worker[w].pc = "recv"
    /\ consumerErrors < MaxMessages + MaxRecvErrors
    /\ consumerErrors' = consumerErrors + 1
    /\ worker' = [worker EXCEPT ![w] = [pc |-> "stopped", offset |-> 0]]
    /\ UNCHANGED << clientVars, requestTopic, delivered, redelivered,
                    storedOffsets, committed, dispatched, resultSends,
                    resultTopic, merged, queryVars >>

\* consumer.recv() returns Err: logged and counted, the loop calls recv
\* again.
WorkerRecvErr(w) ==
    /\ worker[w].pc = "recv"
    /\ consumerErrors < MaxMessages + MaxRecvErrors
    /\ consumerErrors' = consumerErrors + 1
    /\ UNCHANGED << clientVars, requestTopic, worker, delivered, redelivered,
                    storedOffsets, committed, dispatched, resultSends,
                    resultTopic, merged, queryVars >>

\* No payload, a payload that is not text, or text that does not decode:
\* counted, logged, `continue`.
WorkerDecodeErr(w) ==
    /\ worker[w].pc = "process"
    /\ OperationRequestOf(requestTopic[worker[w].offset]) = None
    /\ consumerErrors' = consumerErrors + 1
    /\ worker' = [worker EXCEPT ![w] = [pc |-> "recv", offset |-> 0]]
    /\ UNCHANGED << clientVars, requestTopic, delivered, redelivered,
                    storedOffsets, committed, dispatched, resultSends,
                    resultTopic, merged, queryVars >>

\* consumer.store_offset_from_message(&message) succeeds.
WorkerStoreOffset(w) ==
    /\ worker[w].pc = "store_offset"
    /\ storedOffsets' = [storedOffsets EXCEPT ![w] = worker[w].offset]
    /\ worker' = [worker EXCEPT ![w] = [pc |-> "recv", offset |-> 0]]
    /\ UNCHANGED << clientVars, requestTopic, delivered, redelivered,
                    committed, consumerErrors, dispatched, resultSends,
                    resultTopic, merged, queryVars >>

\* store_offset_from_message fails: logged and counted, the loop goes on.
WorkerStoreOffsetErr(w) ==
    /\ worker[w].pc = "store_offset"
    /\ consumerErrors' = consumerErrors + 1
    /\ worker' = [worker EXCEPT ![w] = [pc |-> "recv", offset |-> 0]]
    /\ UNCHANGED << clientVars, requestTopic, delivered, redelivered,
                    storedOffsets, committed, dispatched, resultSends,
                    resultTopic, merged, queryVars >>

\* Mutant: the periodic commit flushes the last delivered offset, as with
\* enable.auto.offset.store = true.
AutoCommitDelivered(w) ==
    /\ delivered # {}
    /\ committed' = CHOOSE k \in delivered : \A j \in delivered : j <= k
    /\ committed' # committed
    /\ UNCHANGED << clientVars, requestTopic, worker, delivered, redelivered,
                    storedOffsets, consumerErrors, dispatched, resultSends,
                    resultTopic, merged, queryVars >>

\* enable.auto.commit = true, enable.auto.offset.store = false: the periodic
\* commit of a subscription flushes the offset it stored last; the committed
\* position of the partition then covers every offset up to that one. A
\* partition has one owner at a time and is read in order, so the position
\* only moves forward.
AutoCommit(w) ==
    /\ storedOffsets[w] > committed
    /\ committed' = storedOffsets[w]
    /\ UNCHANGED << clientVars, requestTopic, worker, delivered, redelivered,
                    storedOffsets, consumerErrors, dispatched, resultSends,
                    resultTopic, merged, queryVars >>

\* Another producer writes a record to the request topic.
Produce(message) ==
    /\ Len(requestTopic) < MaxMessages
    /\ requestTopic' = Append(requestTopic, message)
    /\ UNCHANGED << clientVars, serverVars, queryVars >>

----------------------------------------------------------------------------
\* The result path: the result publisher of the server (send_operation_result)
\* and the result consumer of the client, as section 4.3 and the control
\* flow of section 2 of the specification describe them.

\* The send of a result succeeds: the message is on the result topic.
ResultSendOk(operation) ==
    /\ BagIn(operation, resultSends)
    /\ resultSends' = resultSends (-) SetToBag({operation})
    /\ resultTopic' =
           Append(resultTopic, ResultToString(OperationResultFrom(operation)))
    /\ UNCHANGED << clientVars, requestTopic, worker, delivered, redelivered,
                    storedOffsets, committed, consumerErrors, dispatched,
                    merged, queryVars >>

\* The send of a result fails, or the process stops before the spawned send
\* has run: the result reaches no topic.
ResultSendErr(operation) ==
    /\ BagIn(operation, resultSends)
    /\ resultSends' = resultSends (-) SetToBag({operation})
    /\ UNCHANGED << clientVars, requestTopic, worker, delivered, redelivered,
                    storedOffsets, committed, consumerErrors, dispatched,
                    resultTopic, merged, queryVars >>

\* The result consumer decodes a result message and merges it with
\* update_operation(job_id, operation_id, result); when no document matches
\* the call fails with Document not found, which is logged, and the store
\* is unchanged. The messages are consumed in the order of the topic.
ResultMerge(offset) ==
    /\ offset \in (1..Len(resultTopic)) \ merged
    /\ \A k \in 1..(offset - 1) : k \in merged
    /\ merged' = merged \cup {offset}
    /\ LET decoded == DecodeResult(resultTopic[offset])
       IN  IF decoded = None
           THEN UNCHANGED << operations, log >>
           ELSE /\ operations' = UpdatedOperations(decoded[1].job_id,
                                                   decoded[1].operation_id,
                                                   decoded[1].result)
                /\ log' =
                       IF Matched(decoded[1].job_id,
                                  decoded[1].operation_id) = {}
                       THEN log \cup {[task |-> "merge",
                                       job_id |-> decoded[1].job_id,
                                       error |-> "NotFound"]}
                       ELSE log
    /\ UNCHANGED << jobs, nextJobId, nextOperationId, inserted, submit,
                    fanout, sends, requestTopic, producerSent, producerErrors,
                    del, cascade, getJob, worker, delivered, redelivered,
                    storedOffsets, committed, consumerErrors, dispatched,
                    resultSends, resultTopic, queryVars >>

----------------------------------------------------------------------------
\* serde_json::to_string and serde_json::from_str on the two message
\* structs, with the text of a field as a sequence of characters. (The ids,
\* requests and results of the flows above hold no character that JSON
\* escapes: for them the text of a field is the field.)

\* Characters of a field: a letter, a character outside ASCII, the quote,
\* the backslash and the line feed.
Chars == {"n", "U+00E9", "\"", "\\", NL}

\* Mutant: the backslash is written as it is.
RECURSIVE JsonEscapeKeepsBackslash(_)
JsonEscapeKeepsBackslash(chars) ==
    IF chars = <<>> THEN <<>>
    ELSE (IF Head(chars) = "\"" THEN << "\\", "\"" >>
          ELSE IF Head(chars) = NL THEN << "\\", "n" >>
          ELSE << Head(chars) >>) \o JsonEscapeKeepsBackslash(Tail(chars))

\* The content of the JSON string serde_json writes for a Rust string: the
\* quote, the backslash and control characters are escaped, every other
\* character is written as it is.
RECURSIVE JsonEscape(_)
JsonEscape(chars) ==
    IF chars = <<>> THEN <<>>
    ELSE (IF Head(chars) = "\"" THEN << "\\", "\"" >>
          ELSE IF Head(chars) = "\\" THEN << "\\", "\\" >>
          ELSE IF Head(chars) = NL THEN << "\\", "n" >>
          ELSE << Head(chars) >>) \o JsonEscape(Tail(chars))

\* The Rust string serde_json reads from the content of a JSON string, or
\* None when the content is not valid: a bare quote or control character,
\* or a backslash that starts no escape.
RECURSIVE JsonUnescape(_)
JsonUnescape(text) ==
    IF text = <<>> THEN Some(<<>>)
    ELSE IF Head(text) \in {"\"", NL} THEN None
    ELSE IF Head(text) = "\\"
         THEN IF Len(text) < 2 \/ text[2] \notin {"\"", "\\", "n"} THEN None
              ELSE LET rest == JsonUnescape(Tail(Tail(text)))
                   IN  IF rest = None THEN None
                       ELSE Some(<< IF text[2] = "n" THEN NL ELSE text[2] >>
                                     \o rest[1])
    ELSE LET rest == JsonUnescape(Tail(text))
         IN  IF rest = None THEN None ELSE Some(<< Head(text) >> \o rest[1])

\* OperationRequest / OperationResult to_string: the object with each field
\* as a JSON string.
Serialize(kind, m) ==
    IF kind = "request"
    THEN RequestToString([job_id |-> JsonEscape(m.job_id),
                          operation_id |-> JsonEscape(m.operation_id),
                          request |-> JsonEscape(m.request)])
    ELSE ResultToString([job_id |-> JsonEscape(m.job_id),
                         operation_id |-> JsonEscape(m.operation_id),
                         result |-> JsonEscape(m.result)])

\* OperationRequest / OperationResult try_from(&str): the fields are
\* checked, then each JSON string is read.
Deserialize(kind, text) ==
    IF kind = "request"
    THEN LET raw == DecodeRequest(text)
         IN  IF raw = None THEN None
             ELSE LET job_id       == JsonUnescape(raw[1].job_id)
                      operation_id == JsonUnescape(raw[1].operation_id)
                      request      == JsonUnescape(raw[1].request)
                  IN  IF None \in {job_id, operation_id, request} THEN None
                      ELSE Some([job_id |-> job_id[1],
                                 operation_id |-> operation_id[1],
                                 request |-> request[1]])
    ELSE LET raw == DecodeResult(text)
         IN  IF raw = None THEN None
             ELSE LET job_id       == JsonUnescape(raw[1].job_id)
                      operation_id == JsonUnescape(raw[1].operation_id)
                      result       == JsonUnescape(raw[1].result)
                  IN  IF None \in {job_id, operation_id, result} THEN None
                      ELSE Some([job_id |-> job_id[1],
                                 operation_id |-> operation_id[1],
                                 result |-> result[1]])

\* The sender writes the message as text.
WireSend ==
    /\ wire.kind # "none"
    /\ wire.text = None
    /\ wire' = [wire EXCEPT !.text = Some(Serialize(wire.kind, wire.message))]
    /\ UNCHANGED << clientVars, requestTopic, serverVars, stream, lookup,
                    page, tracing, spans,
                    list, otel,
                    reported >>

\* The receiver reads the text.
WireReceive ==
    /\ wire.text # None
    /\ wire.decoded = None
    /\ wire' = [wire EXCEPT
                    !.decoded = Some(Deserialize(wire.kind, wire.text[1]))]
    /\ UNCHANGED << clientVars, requestTopic, serverVars, stream, lookup,
                    page, tracing, spans,
                    list, otel,
                    reported >>

----------------------------------------------------------------------------
\* OperationRepository::get_batch_operations(job_id, batch_size, handler),
\* one call followed step by step. stream.returned are the documents the
\* cursor yielded, stream.buffer the chunk try_chunks is filling,
\* stream.handled the operations the handler was invoked for.

\* find({job_id}).batch_size(batch_size) opens a fresh cursor;
\* try_chunks(batch_size) wraps it.
StreamCall(job_id, batch_size) ==
    /\ stream.pc \in {"idle", "done"}
    /\ stream.calls < MaxCalls
    /\ stream' = [pc |-> "next", calls |-> stream.calls + 1,
                  job_id |-> job_id, batch_size |-> batch_size, last |-> 0,
                  returned |-> <<>>, buffer |-> <<>>, batch |-> <<>>,
                  eof |-> FALSE, handled |-> <<>>, result |-> None]
    /\ UNCHANGED << clientVars, requestTopic, serverVars, lookup, page,
                    wire, tracing, spans,
                    list, otel,
                    reported >>

\* The document the cursor yields next: the first one of the job after the
\* last one it yielded.
CursorNext == NextChunk(stream.job_id, stream.last, 1)

\* chunked.try_next() polls the cursor: a document is added to the chunk
\* being filled; a chunk of batch_size documents is handed to the loop.
StreamCursorRead ==
    /\ stream.pc = "next"
    /\ ~ stream.eof
    /\ CursorNext # <<>>
    /\ LET buffer == Append(stream.buffer, CursorNext[1])
           full   == Len(buffer) = stream.batch_size
       IN  stream' = [stream EXCEPT
                          !.pc = IF full THEN "handle" ELSE "next",
                          !.buffer = IF full THEN <<>> ELSE buffer,
                          !.batch = IF full THEN buffer ELSE <<>>,
                          !.last = OperationIdOf(CursorNext[1]),
                          !.returned = Append(@, CursorNext[1])]
    /\ UNCHANGED << clientVars, requestTopic, serverVars, lookup, page,
                    wire, tracing, spans,
                    list, otel,
                    reported >>

\* The cursor is exhausted: a chunk that is partly filled is handed to the
\* loop, then try_next() returns None and the call returns Ok(()).
StreamCursorEnd ==
    /\ stream.pc = "next"
    /\ stream.eof \/ CursorNext = <<>>
    /\ stream' = IF stream.buffer # <<>>
                 THEN [stream EXCEPT !.pc = "handle", !.batch = stream.buffer,
                                     !.buffer = <<>>, !.eof = TRUE]
                 ELSE [stream EXCEPT !.pc = "done",
                                     !.result = Some(Ok("()"))]
    /\ UNCHANGED << clientVars, requestTopic, serverVars, lookup, page,
                    wire, tracing, spans,
                    list, otel,
                    reported >>

\* Mutant: the documents read before the error are handled before the
\* error is returned.
StreamCursorErrHandlesPartialChunk ==
    /\ stream.pc = "next"
    /\ ~ stream.eof
    /\ stream' = [stream EXCEPT !.pc = "done", !.buffer = <<>>,
                                !.handled = @ \o stream.buffer,
                                !.result = Some(Err("Storage"))]
    /\ UNCHANGED << clientVars, requestTopic, serverVars, lookup, page,
                    wire, tracing, spans,
                    list, otel,
                    reported >>

\* The cursor fails: try_next() returns the error together with the chunk
\* read so far, `?` returns the error and drops that chunk.
StreamCursorErr ==
    /\ stream.pc = "next"
    /\ ~ stream.eof
    /\ stream' = [stream EXCEPT !.pc = "done", !.buffer = <<>>,
                                !.result = Some(Err("Storage"))]
    /\ UNCHANGED << clientVars, requestTopic, serverVars, lookup, page,
                    wire, tracing, spans,
                    list, otel,
                    reported >>

\* Mutant: the loop handles the first operation of each chunk only.
StreamHandleFirstOnly ==
    /\ stream.pc = "handle"
    /\ stream' = [stream EXCEPT !.pc = "next", !.batch = <<>>,
                                !.handled = Append(@, stream.batch[1])]
    /\ UNCHANGED << clientVars, requestTopic, serverVars, lookup, page,
                    wire, tracing, spans,
                    list, otel,
                    reported >>

\* for op in batch { handler(op).await }
StreamHandle ==
    /\ stream.pc = "handle"
    /\ stream' = [stream EXCEPT !.pc = "next", !.batch = <<>>,
                                !.handled = @ \o stream.batch]
    /\ UNCHANGED << clientVars, requestTopic, serverVars, lookup, page,
                    wire, tracing, spans,
                    list, otel,
                    reported >>

----------------------------------------------------------------------------

OperationIds == 1..(nextOperationId - 1)

SubmitNext ==
    \/ \E s \in JobIds, body \in Bodies : InsertJobOk(s, body)
    \/ \E s \in JobIds, body \in Bodies : InsertJobErr(s, body)
    \/ \E s \in JobIds : InsertOperationsOk(s)
    \/ \E s \in JobIds : InsertOperationsErr(s)
    \/ \E s \in JobIds : CompensateOk(s)
    \/ \E s \in JobIds, e \in {"NotFound", "Storage"} : CompensateErr(s, e)
    \/ \E s \in JobIds : SpawnFanOut(s)
    \/ \E s \in JobIds : Respond(s)

FanOutNext ==
    \/ \E s \in JobIds : FanOutChunk(s)
    \/ \E s \in JobIds : FanOutCursorErr(s)
    \/ \E s \in JobIds : FanOutHandle(s)
    \/ \E op \in sends : SendOk(op)
    \/ \E op \in sends : SendErr(op)

DeleteNext ==
    \/ \E d \in JobIds, j \in JobIds : DeleteJobOk(d, j)
    \/ \E d \in JobIds, j \in JobIds, e \in {"NotFound", "Storage"} :
           DeleteJobErr(d, j, e)
    \/ \E d \in JobIds : DeleteSpawn(d)
    \/ \E d \in JobIds : DeleteRespond(d)
    \/ \E j \in JobIds : CascadeOk(j)
    \/ \E j \in JobIds, e \in {"NotFound", "Storage"} : CascadeErr(j, e)

GetNext ==
    \/ \E j \in JobIds : GetJobFound(j)
    \/ \E j \in JobIds : GetJobNotFound(j)
    \/ GetJobCount

MergeNext ==
    \E j \in JobIds, o \in OperationIds, r \in MergeResults :
        UpdateOperation(j, o, r)

\* The client application: submissions, their fan-out, deletions.
Next == SubmitNext \/ FanOutNext \/ DeleteNext

Spec == Init /\ [][Next]_vars

\* Submissions, result merges and status queries.
StatusNext == SubmitNext \/ GetNext \/ MergeNext

StatusSpec == Init /\ [][StatusNext]_vars

\* The end-to-end scenario's body is submitted too.
LiveBodies == Bodies \cup { <<"1+1", NL, "2*3", NL, "10/0">> }

\* One submission through the whole pipeline when no store call and no send
\* fails and every message is delivered; the tasks are scheduled fairly.
LiveNext ==
    \/ \E body \in LiveBodies : InsertJobOk(1, body)
    \/ \E s \in JobIds : InsertOperationsOk(s)
    \/ \E s \in JobIds : SpawnFanOut(s)
    \/ \E s \in JobIds : Respond(s)
    \/ \E s \in JobIds : FanOutChunk(s)
    \/ \E s \in JobIds : FanOutHandle(s)
    \/ \E op \in sends : SendOk(op)
    \/ \E w \in Workers, offset \in 1..Len(requestTopic) :
           WorkerRecv(w, offset)
    \/ \E w \in Workers : WorkerProcess(w)
    \/ \E w \in Workers : WorkerStoreOffset(w)
    \/ \E operation \in BagToSet(resultSends) : ResultSendOk(operation)
    \/ \E offset \in 1..Len(resultTopic) : ResultMerge(offset)

LiveSpec == Init /\ [][LiveNext]_vars /\ WF_vars(LiveNext)

\* Records the request topic can hold: two well-formed requests (one whose
\* evaluation fails), a record without payload, bytes that are not UTF-8,
\* an object with an unknown field, and an object without its request.
Messages ==
    { KafkaMessage(RequestToString(
          [job_id |-> 1, operation_id |-> 1, request |-> "1+1"]), None),
      KafkaMessage(RequestToString(
          [job_id |-> 1, operation_id |-> 2, request |-> "10/0"]), None),
      [payload |-> None, headers |-> None],
      [payload |-> Some([valid_utf8 |-> FALSE, text |-> <<>>]),
       headers |-> None],
      KafkaMessage(<< <<"job_id", 1>>, <<"operation_id", 1>>,
                      <<"request", "1+1">>, <<"priority", "high">> >>, None),
      KafkaMessage(<< <<"job_id", 1>>, <<"operation_id", 1>> >>, None) }

\* The worker pool on one partition of the request topic, fed by any
\* producer: deliveries, results dispatched, offsets stored and committed.
WorkerNext ==
    \/ \E message \in Messages : Produce(message)
    \/ \E w \in Workers, offset \in 1..Len(requestTopic) :
           WorkerRecv(w, offset)
    \/ \E w \in Workers : WorkerProcess(w)
    \/ \E w \in Workers : WorkerDecodeErr(w)
    \/ \E w \in Workers : WorkerStoreOffset(w)
    \/ \E w \in Workers : WorkerStoreOffsetErr(w)
    \/ \E w \in Workers : AutoCommit(w)

WorkerSpec == Init /\ [][WorkerNext]_vars

\* One submission whose job may be deleted while its fan-out publishes, the
\* workers with second deliveries, and the results merged into the store.
RaceNext ==
    \/ \E body \in Bodies : InsertJobOk(1, body)
    \/ InsertOperationsOk(1)
    \/ SpawnFanOut(1)
    \/ Respond(1)
    \/ FanOutChunk(1)
    \/ FanOutHandle(1)
    \/ \E op \in sends : SendOk(op)
    \/ \E j \in JobIds : DeleteJobOk(1, j)
    \/ DeleteSpawn(1)
    \/ DeleteRespond(1)
    \/ \E j \in JobIds : CascadeOk(j)
    \/ \E j \in JobIds : CascadeErr(j, "NotFound")
    \/ \E w \in Workers, offset \in 1..Len(requestTopic) :
           WorkerRecv(w, offset)
    \/ \E w \in Workers, offset \in 1..Len(requestTopic) :
           WorkerRecvAgain(w, offset)
    \/ \E w \in Workers : WorkerProcess(w)
    \/ \E w \in Workers : WorkerStoreOffset(w)
    \/ \E operation \in BagToSet(resultSends) : ResultSendOk(operation)
    \/ \E offset \in 1..Len(resultTopic) : ResultMerge(offset)

RaceSpec == Init /\ [][RaceNext]_vars

\* One submission through the workers when sends of results can fail:
\* offsets are stored and committed, messages delivered again, results
\* merged.
LossNext ==
    \/ \E body \in Bodies : InsertJobOk(1, body)
    \/ InsertOperationsOk(1)
    \/ SpawnFanOut(1)
    \/ Respond(1)
    \/ FanOutChunk(1)
    \/ FanOutHandle(1)
    \/ \E op \in sends : SendOk(op)
    \/ \E w \in Workers, offset \in 1..Len(requestTopic) :
           WorkerRecv(w, offset)
    \/ \E w \in Workers, offset \in 1..Len(requestTopic) :
           WorkerRecvAgain(w, offset)
    \/ \E w \in Workers : WorkerProcess(w)
    \/ \E w \in Workers : WorkerStoreOffset(w)
    \/ \E w \in Workers : AutoCommit(w)
    \/ \E operation \in BagToSet(resultSends) : ResultSendOk(operation)
    \/ \E operation \in BagToSet(resultSends) : ResultSendErr(operation)
    \/ \E offset \in 1..Len(resultTopic) : ResultMerge(offset)

LossSpec == Init /\ [][LossNext]_vars

\* Request bodies of the submissions that fill the store for the calls of
\* get_batch_operations: one, two and three operations.
StreamBodies ==
    { <<"1+1", NL>>,
      <<"1+1", NL, "10/0">>,
      <<"1+1", NL, "10/0", NL, "2*3">> }

\* Submissions fill the store; get_batch_operations is called for their
\* jobs with several batch sizes.
StreamNext ==
    \/ \E s \in JobIds, body \in StreamBodies : InsertJobOk(s, body)
    \/ \E s \in JobIds : InsertOperationsOk(s)
    \/ \E s \in JobIds : SpawnFanOut(s)
    \/ \E s \in JobIds : Respond(s)
    \/ \E j \in JobIds, n \in 1..MaxBatchSize : StreamCall(j, n)
    \/ StreamCursorRead
    \/ StreamCursorEnd
    \/ StreamCursorErr
    \/ StreamHandle

StreamSpec == Init /\ [][StreamNext]_vars

\* Submissions fill the store; get_operation and update_operation are
\* called with the ids of stored operations, with an id the store has not
\* assigned, and with an id that does not parse.
LookupNext ==
    \/ \E s \in JobIds, body \in Bodies : InsertJobOk(s, body)
    \/ \E s \in JobIds : InsertOperationsOk(s)
    \/ \E s \in JobIds : SpawnFanOut(s)
    \/ \E s \in JobIds : Respond(s)
    \/ \E j \in JobIds, o \in 0..nextOperationId : GetOperation(j, o)
    \/ \E j \in JobIds, o \in 0..nextOperationId, r \in MergeResults :
           UpdateOperationCall(j, o, r)

LookupSpec == Init /\ [][LookupNext]_vars

\* The query strings of GET /api/jobs/{id}/operations: page and size are
\* each absent or a number.
PageParamsSet ==
    [page : {None} \cup {Some(n) : n \in 0..MaxPageParam},
     size : {None} \cup {Some(n) : n \in 0..MaxSizeParam}]

PageInit ==
    /\ InitProgram
    /\ wire = NoWire
    /\ tracing = TracingDefault
    /\ \E params \in PageParamsSet :
           page = [params |-> params, effective |-> None]

PageNext == PageApply

PageSpec == PageInit /\ [][PageNext]_vars

\* Character strings of at most n characters.
RECURSIVE Texts(_)
Texts(n) ==
    IF n = 0 THEN {<<>>}
    ELSE Texts(n - 1)
             \cup {Append(t, c) : t \in {u \in Texts(n - 1) : Len(u) = n - 1},
                                  c \in Chars}

\* Request and result messages: ids with and without a character that is
\* escaped, and every text up to MaxTextLen characters, the empty one
\* included.
WireMessages(kind) ==
    IF kind = "request"
    THEN [job_id : {<<"\"">>, <<"n">>}, operation_id : {<<"n">>, <<"\\">>},
          request : Texts(MaxTextLen)]
    ELSE [job_id : {<<"\"">>, <<"n">>}, operation_id : {<<"n">>, <<"\\">>},
          result : Texts(MaxTextLen)]

WireInit ==
    /\ InitProgram
    /\ page = NoPage
    /\ tracing = TracingDefault
    /\ \E kind \in {"request", "result"} :
         \E message \in WireMessages(kind) :
           wire = [kind |-> kind, message |-> message, text |-> None,
                   decoded |-> None]

WireNext == WireSend \/ WireReceive

WireSpec == WireInit /\ [][WireNext]_vars

\* Jobs are submitted and the result each of their operations evaluates to
\* is merged with update_operation, in any order of the operations and of
\* the jobs.
MergeOrderNext ==
    \/ \E s \in JobIds, body \in LiveBodies : InsertJobOk(s, body)
    \/ \E s \in JobIds : InsertOperationsOk(s)
    \/ \E s \in JobIds : SpawnFanOut(s)
    \/ \E s \in JobIds : Respond(s)
    \/ \E o \in operations :
          /\ o.result = None
          /\ UpdateOperationCall(o.job_id, OperationIdOf(o),
                                 WorkerResult(o.request))

MergeOrderSpec == Init /\ [][MergeOrderNext]_vars

\* Submissions with failing bulk inserts, deletions with their cascades, and
\* result merges of any value, repeated at will.
CountNext == SubmitNext \/ DeleteNext \/ MergeNext

CountSpec == Init /\ [][CountNext]_vars

\* Page numbers a query string can carry: small ones, and the largest
\* values of usize.
SkipPages ==
    (0..MaxPageParam) \cup {USIZE_MAX - k : k \in 0..MaxPageParam}

SkipInit ==
    /\ InitProgram
    /\ wire = NoWire
    /\ tracing = TracingDefault
    /\ \E params \in [page : {None} \cup {Some(n) : n \in SkipPages},
                      size : {None} \cup {Some(n) : n \in 0..MaxSizeParam}] :
           page = [params |-> params, effective |-> None]

\* get_jobs_endpoint_handler and get_operations_endpoint_handler: the
\* repository is called with page() and size() of the query string.
SkipNext ==
    \/ PageApply
    \/ \E call \in {"jobs", "operations"} :
         /\ page.effective # None
         /\ list.pc = "idle"
         /\ ListFind(call, 1, page.effective[1].page,
                     page.effective[1].size)
    \/ \E call \in {"jobs", "operations"} :
         /\ page.effective # None
         /\ list.pc = "idle"
         /\ ListSkipPanics(call, 1, page.effective[1].page,
                           page.effective[1].size)
    \/ ListCount

SkipSpec == SkipInit /\ [][SkipNext]_vars

\* Submissions fill the operation collection; get_operations is called for
\* their jobs with several pages and sizes, also while a submission is under
\* way.
ListNext ==
    \/ \E s \in JobIds, body \in StreamBodies : InsertJobOk(s, body)
    \/ \E s \in JobIds : InsertOperationsOk(s)
    \/ \E s \in JobIds : SpawnFanOut(s)
    \/ \E s \in JobIds : Respond(s)
    \/ \E j \in JobIds, p \in 0..MaxPageParam, n \in 1..MaxListSize :
           ListFind("operations", j, p, n)
    \/ \E j \in JobIds, p \in 0..MaxPageParam, n \in 1..MaxListSize :
           ListSkipPanics("operations", j, p, n)
    \/ ListCount

ListSpec == Init /\ [][ListNext]_vars

\* The store holds a job and its operations, submitted with one of the
\* bodies before the process started; no request has been received yet.
DeleteRaceInit ==
    /\ \E body \in StreamBodies :
         LET docs == [i \in 1..Len(Lines(body)) |->
                         [NewOperation(1, Lines(body)[i])
                             EXCEPT !.id = Some(i)]]
         IN  /\ jobs = {[NewJob(Len(docs)) EXCEPT !.id = Some(1)]}
             /\ operations = Range(docs)
             /\ inserted = Range(docs)
             /\ nextOperationId = Len(docs) + 1
    /\ nextJobId = 2
    /\ InitTasks
    /\ otel = NoOtel
    /\ page = NoPage
    /\ wire = NoWire
    /\ tracing = TracingDefault

\* DELETE requests for the stored job and for an id of no job, and the
\* tasks they spawn.
DeleteRaceNext == DeleteNext

DeleteRaceSpec == DeleteRaceInit /\ [][DeleteRaceNext]_vars

\* The loops of the subscriptions with every error the broker client can
\* return to them: a failed receive, a failed store_offset, and one record
\* for each branch of the decoding next to a well-formed request.
LoopMessages ==
    { KafkaMessage(RequestToString(
          [job_id |-> 1, operation_id |-> 1, request |-> "1+1"]), None),
      [payload |-> None, headers |-> None],
      [payload |-> Some([valid_utf8 |-> FALSE, text |-> <<>>]),
       headers |-> None],
      KafkaMessage(<< <<"job_id", 1>>, <<"operation_id", 1>> >>, None) }

LoopNext ==
    \/ \E message \in LoopMessages : Produce(message)
    \/ \E w \in Workers, offset \in 1..Len(requestTopic) :
           WorkerRecv(w, offset)
    \/ \E w \in Workers : WorkerRecvErr(w)
    \/ \E w \in Workers : WorkerProcess(w)
    \/ \E w \in Workers : WorkerDecodeErr(w)
    \/ \E w \in Workers : WorkerStoreOffset(w)
    \/ \E w \in Workers : WorkerStoreOffsetErr(w)

LoopSpec == Init /\ [][LoopNext]_vars

\* The process starts in any environment; the environment changes and
\* should_instrument_kafka is called, in any order.
OtelInit ==
    /\ InitTasks
    /\ jobs = {}
    /\ operations = {}
    /\ nextJobId = 1
    /\ nextOperationId = 1
    /\ inserted = {}
    /\ page = NoPage
    /\ wire = NoWire
    /\ tracing = TracingDefault
    /\ \E sampler \in SamplerValues, arg \in SamplerArgValues :
           otel = [NoOtel EXCEPT
                      !.env = [OTEL_TRACES_SAMPLER |-> sampler,
                               OTEL_TRACES_SAMPLER_ARG |-> arg]]

OtelNext ==
    \/ \E sampler \in SamplerValues, arg \in SamplerArgValues :
           SetEnv(sampler, arg)
    \/ ShouldInstrumentKafka

OtelSpec == OtelInit /\ [][OtelNext]_vars

\* Each process reads its environment once: tracing is enabled or disabled
\* in the client and in the server.
TraceInit ==
    /\ InitProgram
    /\ page = NoPage
    /\ wire = NoWire
    /\ tracing \in [client : BOOLEAN, server : BOOLEAN]

\* One submission is published and received by the workers.
TraceNext ==
    \/ \E body \in LiveBodies : InsertJobOk(1, body)
    \/ InsertOperationsOk(1)
    \/ SpawnFanOut(1)
    \/ Respond(1)
    \/ FanOutChunk(1)
    \/ FanOutHandle(1)
    \/ \E op \in sends : SendOk(op)
    \/ \E w \in Workers, offset \in 1..Len(requestTopic) :
           WorkerRecv(w, offset)
    \/ \E w \in Workers : WorkerProcess(w)
    \/ \E w \in Workers : WorkerStoreOffset(w)

TraceSpec == TraceInit /\ [][TraceNext]_vars

----------------------------------------------------------------------------
\* Properties of the submission handler (under Spec)

\* Ids of the operation documents a submission persisted.
PersistedIds(job_id) == {d.id : d \in {x \in inserted : x.job_id = job_id}}

\* C1: when insert_job and insert_operations both succeed for a body of N
\* lines, the job document written has operations = N, and after the bulk
\* insert exactly N operation documents carry the new job's id, one per
\* line, each with that line as request, a store-assigned id and no result.
C1_SubmissionPersistsJobAndOperations ==
    [][\A s \in JobIds :
        LET job_id == submit'[s].job_id
            lines  == Lines(submit'[s].body)
            N      == Len(lines)
        IN  /\ (submit[s].pc = "idle" /\ submit'[s].pc = "insert_operations")
                => {j \in jobs' : j.id = Some(job_id)}
                       = {[id |-> Some(job_id), operations |-> N]}
            /\ (submit[s].pc = "insert_operations" /\ submit'[s].pc = "spawn")
                => LET ops == {o \in operations' : o.job_id = job_id}
                   IN  /\ Cardinality(ops) = N
                       /\ \E f \in [1..N -> ops] :
                            /\ \A i, k \in 1..N : i # k => f[i] # f[k]
                            /\ \A i \in 1..N :
                                 /\ f[i].request = lines[i]
                                 /\ f[i].result = None
                                 /\ f[i].id # None
      ]_vars

\* A two-line body was persisted by a submission whose inserts succeeded.
C1_Witness ==
    \E s \in JobIds :
        /\ submit[s].pc = "spawn"
        /\ ~ submit[s].insert_err
        /\ Len(Lines(submit[s].body)) = 2
        /\ Cardinality(OperationsOf(submit[s].job_id)) = 2

\* C4: every operation the fan-out read, handed to the request publisher or
\* published on the request topic is an operation document that was
\* persisted (store-assigned id, the job's id, its request), never an
\* element of the list built in memory before the bulk insert.
C4_PublishedOperationsWereReadFromStore ==
    /\ \A s \in JobIds : \A k \in 1..Len(fanout[s].batch) :
         /\ fanout[s].batch[k].id # None
         /\ fanout[s].batch[k].job_id = submit[s].job_id
         /\ fanout[s].batch[k].id \in PersistedIds(submit[s].job_id)
    /\ \A op \in sends :
         /\ op.id # None
         /\ \E d \in inserted :
              d.id = op.id /\ d.job_id = op.job_id /\ d.request = op.request
    /\ \A k \in 1..Len(requestTopic) :
         LET m == OperationRequestOf(requestTopic[k])
         IN  /\ m # None
             /\ m[1].operation_id # 0
             /\ \E d \in inserted :
                  /\ d.id = Some(m[1].operation_id)
                  /\ d.job_id = m[1].job_id
                  /\ d.request = m[1].request

\* A published message names an operation that was read from the store and
\* has been deleted since.
C4_Witness ==
    \E k \in 1..Len(requestTopic) :
        LET m == OperationRequestOf(requestTopic[k])[1]
        IN  /\ Some(m.operation_id) \in PersistedIds(m.job_id)
            /\ \A o \in operations : o.id # Some(m.operation_id)

\* The DELETE requests that removed the job document of job_id.
Deleters(job_id) ==
    {d \in JobIds : /\ del[d].job_id = job_id
                    /\ \/ del[d].pc \in {"spawn", "respond"}
                       \/ del[d].pc = "done" /\ IsOk(del[d].response)}

\* C5 as stated: while no bulk insert has failed, every operation document
\* refers to a job document that exists, also during deletions.
C5_NoOrphanOperation ==
    (\A s \in JobIds : ~ submit[s].insert_err)
        => \A o \in operations : FindJob(o.job_id) # None

\* C5 amended: while no bulk insert has failed, every operation document
\* refers to a job document that exists or that a successful DELETE removed;
\* the operations of a deleted job stay until its cascade deletes them.
C5_OrphansOnlyOfDeletedJobs ==
    (\A s \in JobIds : ~ submit[s].insert_err)
        => \A o \in operations :
               FindJob(o.job_id) # None \/ Deleters(o.job_id) # {}

\* The cascade of a deleted job has run and failed: its operations are still
\* stored, the job is gone, and no bulk insert failed.
C5_Witness ==
    /\ \A s \in JobIds : ~ submit[s].insert_err
    /\ \E o \in operations :
         /\ FindJob(o.job_id) = None
         /\ [job_id |-> o.job_id, pc |-> "done"] \in cascade

C8_StoreFailureIsSurfaced ==
    \A s \in JobIds :
        (submit[s].pc = "done" /\ (submit[s].job_id = 0 \/ submit[s].insert_err))
            => IsErr(submit[s].response)

\* C9: the response is NewJobResponse(job id, number of lines, InProgress),
\* produced after the store writes; the handler that reached its return is
\* never kept waiting, whatever the fan-out has or has not done, and no state
\* of the fan-out changes the response.
C9_ResponseDoesNotAwaitFanOut ==
    \A s \in JobIds :
        /\ submit[s].pc = "respond" => ENABLED Respond(s)
        /\ IsOk(submit[s].response)
            => /\ submit[s].response[1][2] =
                      [id |-> submit[s].job_id,
                       created_operations |-> Len(Lines(submit[s].body)),
                       status |-> "InProgress"]
               /\ ~ submit[s].insert_err
                    => Cardinality(PersistedIds(submit[s].job_id))
                           = Len(Lines(submit[s].body))

\* The response of a two-line job was returned while its fan-out had read
\* nothing and no message had been handed to the publisher.
C9_Witness ==
    \E s \in JobIds :
        /\ IsOk(submit[s].response)
        /\ Len(Lines(submit[s].body)) = 2
        /\ fanout[s].pc = "find"
        /\ sends = {}
        /\ requestTopic = <<>>

\* C10: a successful DELETE has removed the job document before it answers
\* and has started one background task for the job's operations; the handler
\* that reached its return is never kept waiting for the task, and an error
\* of the task is logged while the response stays Ok.
C10_DeleteAnswersBeforeCascade ==
    /\ \A l \in log : l.task = "cascade" => Deleters(l.job_id) # {}
    /\ \A d \in JobIds :
           /\ (del[d].pc \in {"spawn", "respond"} \/ IsOk(del[d].response))
               => FindJob(del[d].job_id) = None
           /\ del[d].pc = "respond" => ENABLED DeleteRespond(d)
           /\ (del[d].pc = "respond" \/ IsOk(del[d].response))
               => Cardinality({c \in cascade : c.job_id = del[d].job_id}) = 1
           /\ \A l \in log :
                (/\ l.task = "cascade"
                 /\ l.job_id = del[d].job_id
                 /\ d \in Deleters(l.job_id))
                    => /\ del[d].pc \in {"respond", "done"}
                       /\ del[d].pc = "done"
                            => del[d].response = Some(Ok("empty"))

\* The DELETE of a job without operations was answered Ok and its task
\* logged Document not found.
C10_Witness ==
    \E d \in JobIds :
        /\ IsOk(del[d].response)
        /\ [task |-> "cascade", job_id |-> del[d].job_id, error |-> "NotFound"]
               \in log

----------------------------------------------------------------------------
\* Status derivation (under StatusSpec)

\* C2: the status get_job reports for a job it found is Completed exactly
\* when the number of stored operations with that job's id whose result is
\* present and not the empty string equals the job's operations count, and
\* InProgress otherwise; operations of other jobs, and operations with an
\* absent or empty result, are not counted.
C2_StatusReflectsCompletedCount ==
    [][(getJob.pc = "count" /\ getJob'.pc = "done")
        => LET job == getJob.job[1]
               counted == {o \in operations :
                              /\ o.job_id = getJob.job_id
                              /\ o.result # None
                              /\ o.result # Some("")}
               status == getJob'.response[1][2].status
           IN  /\ IsOk(getJob'.response)
               /\ job.id = Some(getJob.job_id)
               /\ status \in {"Completed", "InProgress"}
               /\ status = "Completed"
                    <=> Cardinality(counted) = job.operations
      ]_vars

\* get_job answered InProgress for a one-operation job whose operation has
\* the empty result, while an operation of another job has a result.
C2_Witness ==
    /\ getJob.pc = "done"
    /\ IsOk(getJob.response)
    /\ getJob.response[1][2].status = "InProgress"
    /\ getJob.response[1][2].operations = 1
    /\ \E o \in operations : o.job_id = getJob.job_id /\ o.result = Some("")
    /\ \E o \in operations : o.job_id # getJob.job_id /\ o.result = Some("2")

----------------------------------------------------------------------------
\* The whole pipeline (under LiveSpec)

\* Every line of the job has its operation, each with the result of its
\* evaluation (the error text for 10/0), and the derived status is Completed.
Converged(s) ==
    LET job_id == submit[s].job_id
        ops    == {o \in operations : o.job_id = job_id}
    IN  /\ FindJob(job_id) # None
        /\ Cardinality(ops) = Len(Lines(submit[s].body))
        /\ \A o \in ops :
             /\ o.result # None
             /\ o.result # Some("")
             /\ o.request = "1+1" => o.result = Some("2")
             /\ o.request = "2*3" => o.result = Some("6")
             /\ o.request = "10/0" => o.result = Some("Error dividing 10 / 0")
        /\ JobStatus(FindJob(job_id)[1], CountCompleted(job_id)) = "Completed"

\* C3: when every request message is delivered to a worker and every result
\* message is merged by update_operation, a submitted job of N operations
\* eventually has a result on all N operations and the status Completed; an
\* expression that fails to evaluate gets the error text as its result and
\* counts as completed.
C3_SubmittedJobEventuallyCompleted ==
    (submit[1].pc = "spawn") ~> Converged(1)

\* The three-line job is Completed and its 10/0 operation holds the error
\* text.
C3_Witness ==
    /\ Len(Lines(submit[1].body)) = 3
    /\ Converged(1)
    /\ \E o \in operations :
         /\ o.request = "10/0"
         /\ o.result = Some("Error dividing 10 / 0")
    /\ merged = 1..3

----------------------------------------------------------------------------
\* DELETE of a missing job (under Spec)

\* C11: a DELETE naming a job id with no job document answers NotFound in
\* the step that calls delete_job; that step changes no job and no
\* operation document and starts no background deletion, and the request
\* never reaches the spawn afterwards.
C11_DeleteOfMissingJobChangesNothing ==
    /\ [](\A d \in JobIds :
            IsErr(del[d].response)
                => /\ del[d].pc = "done"
                   /\ ~ ENABLED DeleteSpawn(d))
    /\ [][\A d \in JobIds :
            (/\ del[d].pc = "idle"
             /\ del'[d].pc # "idle"
             /\ FindJob(del'[d].job_id) = None)
                => /\ del'[d].pc = "done"
                   /\ del'[d].response = Some(Err("NotFound"))
                   /\ jobs' = jobs
                   /\ operations' = operations
                   /\ cascade' = cascade
        ]_vars

\* A DELETE was answered NotFound for a job whose operations are stored
\* (their job was removed by a compensation); no deletion task exists.
C11_Witness ==
    \E d \in JobIds :
        /\ del[d].response = Some(Err("NotFound"))
        /\ OperationsOf(del[d].job_id) # {}
        /\ cascade = {}

----------------------------------------------------------------------------
\* Deletion racing the fan-out, and duplicate deliveries (under RaceSpec)

\* Ids of the documents of a collection.
IdsOf(documents) == {x.id : x \in documents}

\* C12: while a job is deleted with its fan-out in progress every worker
\* stays in its receive loop: a received request is evaluated and its result
\* dispatched whether or not its operation is still stored, and the merge
\* of a result whose operation is gone fails with Document not found and
\* adds no job and no operation document.
C12_DeletedOperationsDoNotStopWorkers ==
    /\ [](\A w \in Workers :
            /\ worker[w].pc \in {"recv", "process", "store_offset"}
            /\ worker[w].pc = "process" => ENABLED WorkerProcess(w)
            /\ worker[w].pc = "store_offset" => ENABLED WorkerStoreOffset(w))
    /\ [][/\ \A w \in Workers :
               (worker[w].pc = "process" /\ worker'[w] # worker[w])
                   => /\ worker'[w].pc = "store_offset"
                      /\ BagCardinality(dispatched')
                             = BagCardinality(dispatched) + 1
          /\ \A k \in merged' \ merged :
               LET r == DecodeResult(resultTopic[k])[1]
               IN  /\ jobs' = jobs
                   /\ IdsOf(operations') = IdsOf(operations)
                   /\ Matched(r.job_id, r.operation_id) = {}
                        => /\ operations' = operations
                           /\ [task |-> "merge", job_id |-> r.job_id,
                               error |-> "NotFound"] \in log'
       ]_vars

\* The job was deleted with a publish of its fan-out still in flight, its
\* operations are gone, and the merge of a result failed with NotFound.
C12_Witness ==
    /\ sends # {}
    /\ IsOk(del[1].response)
    /\ operations = {}
    /\ inserted # {}
    /\ [task |-> "merge", job_id |-> del[1].job_id, error |-> "NotFound"]
           \in log

\* C13: the deliveries of one request message, to one worker or to two,
\* dispatch results with the same job id, operation id and result; merging
\* the second of two equal result messages changes no document, so the
\* number of operation documents and the completed count are those of a
\* single merge, and no operation id is stored twice.
C13_DuplicateDeliveryIsHarmless ==
    /\ [](/\ \A x, y \in BagToSet(dispatched) :
               x.offset = y.offset => x.operation = y.operation
          /\ \A x \in BagToSet(dispatched) :
               LET m == OperationRequestOf(requestTopic[x.offset])[1]
               IN  /\ x.operation.job_id = m.job_id
                   /\ x.operation.operation_id = m.operation_id
          /\ Cardinality(IdsOf(operations)) = Cardinality(operations))
    /\ [][\A k \in merged' \ merged :
            (\E k0 \in merged : resultTopic[k0] = resultTopic[k])
                => /\ operations' = operations
                   /\ jobs' = jobs
                   /\ \A j \in JobIds : CountCompleted(j)' = CountCompleted(j)
       ]_vars

\* A request was delivered twice, both results were merged, and its
\* operation is stored once, counted once.
C13_Witness ==
    \E k1, k2 \in merged :
        /\ k1 < k2
        /\ resultTopic[k1] = resultTopic[k2]
        /\ \E x \in BagToSet(dispatched) : CopiesIn(x, dispatched) = 2
        /\ LET r == DecodeResult(resultTopic[k1])[1]
           IN  /\ Cardinality(Matched(r.job_id, r.operation_id)) = 1
               /\ \A o \in Matched(r.job_id, r.operation_id) :
                    o.result = Some(r.result)
               /\ Cardinality(OperationsOf(r.job_id)) = 1
               /\ CountCompleted(r.job_id) = 1

----------------------------------------------------------------------------
\* update_operation (under StatusSpec)

\* C14: for every stored operation (job_id, operation_id) and every result
\* r, a call of update_operation with r succeeds and changes no job, and a
\* second call with the same r succeeds too and leaves every document as
\* the first call left it.
C14_UpdateOperationIsIdempotent ==
    [][\A j \in JobIds, o \in OperationIds, r \in MergeResults :
        (/\ Matched(j, o) # {}
         /\ operations' = UpdatedOperations(j, o, r)
         /\ UNCHANGED << submit, getJob >>)
            => /\ jobs' = jobs
               /\ Matched(j, o)' # {}
               /\ UpdatedOperations(j, o, r)' = operations'
               /\ \A x \in operations' :
                    x.id = Some(o) => x.result = Some(r)
      ]_vars

\* An operation holds a merged result next to an operation without one.
C14_Witness ==
    /\ \E x \in operations : x.result = Some("2")
    /\ \E x \in operations : x.result = None
    /\ Cardinality(operations) = 3

\* C15: once an operation document has a result, no step changes it.
C15_ResultIsWriteOnce ==
    [][\A x \in operations : \A y \in operations' :
        (x.result # None /\ y.id = x.id) => y.result = x.result
      ]_vars

----------------------------------------------------------------------------
\* The worker loop (under WorkerSpec)

\* The records of the dispatch history for the message at an offset.
DispatchedAt(k) == {x \in BagToSet(dispatched) : x.offset = k}

\* Number of results dispatched for the message at an offset.
DispatchCount(k) ==
    BagCardinality([x \in DispatchedAt(k) |-> CopiesIn(x, dispatched)])

\* Workers that received the message at an offset and have not yet
\* evaluated it.
Processing(k) ==
    {w \in Workers : worker[w].pc = "process" /\ worker[w].offset = k}

\* C16: a received message whose payload decodes into an operation request
\* has, once the worker has evaluated it, exactly one result dispatched to
\* the result publisher; the result carries the job id and operation id of
\* the request, and the text of the evaluation error when the evaluation
\* fails. The step that evaluates hands that one operation to the publisher.
C16_OneResultPerDecodedMessage ==
    /\ [](\A k \in 1..Len(requestTopic) :
            LET request == OperationRequestOf(requestTopic[k])
            IN  request # None
                    => /\ DispatchCount(k) + Cardinality(Processing(k))
                              = IF k \in delivered THEN 1 ELSE 0
                       /\ \A x \in DispatchedAt(k) :
                            /\ x.operation.job_id = request[1].job_id
                            /\ x.operation.operation_id
                                   = request[1].operation_id
                            /\ request[1].request = "1+1"
                                   => x.operation.result = "2"
                            /\ request[1].request = "10/0"
                                   => x.operation.result
                                          = "Error dividing 10 / 0")
    /\ [][\A w \in Workers :
            (worker[w].pc = "process" /\ worker'[w].pc = "store_offset")
                => \E x \in DispatchedAt(worker[w].offset)' :
                       /\ resultSends'
                              = resultSends (+) SetToBag({x.operation})
                       /\ dispatched' = dispatched (+) SetToBag({x})
       ]_vars

\* The request 10/0 was received and evaluated: one result, the error text,
\* was dispatched for it.
C16_Witness ==
    \E k \in delivered :
        /\ Processing(k) = {}
        /\ DispatchCount(k) = 1
        /\ \A x \in DispatchedAt(k) :
             /\ x.operation.request = "10/0"
             /\ x.operation.result = "Error dividing 10 / 0"
             /\ BagIn(x.operation, resultSends)

\* C17: a subscription's stored offset changes only in the store_offset step
\* of its worker, to the offset of the message the worker holds, and that
\* message's result has been dispatched before; no stored offset belongs to
\* a message without a dispatched result.
C17_OffsetStoredAfterDispatch ==
    /\ [](\A w \in Workers :
            /\ storedOffsets[w] # 0 => DispatchedAt(storedOffsets[w]) # {}
            /\ worker[w].pc = "store_offset"
                   => DispatchedAt(worker[w].offset) # {})
    /\ [][\A w \in Workers :
            storedOffsets'[w] # storedOffsets[w]
                => /\ worker[w].pc = "store_offset"
                   /\ storedOffsets'[w] = worker[w].offset
                   /\ DispatchedAt(worker[w].offset) # {}
                   /\ dispatched' = dispatched
       ]_vars

\* A worker stored the offset of a message whose result it had dispatched
\* and is back in recv.
C17_Witness ==
    \E w \in Workers :
        /\ storedOffsets[w] # 0
        /\ worker[w].pc = "recv"
        /\ DispatchCount(storedOffsets[w]) = 1

\* A record without payload, with bytes that are not text, or whose text is
\* not an object of exactly the fields job_id, operation_id and request.
Malformed(message) ==
    IF message.payload = None THEN TRUE
    ELSE IF ~ message.payload[1].valid_utf8 THEN TRUE
    ELSE LET text == message.payload[1].text
         IN  \/ Len(text) # 3
             \/ {text[i][1] : i \in 1..Len(text)}
                    # {"job_id", "operation_id", "request"}

\* C18: the worker that holds a malformed message leaves it in one step
\* that increments the error counter, dispatches no result, stores no
\* offset and returns to recv; no result is ever dispatched for such a
\* message.
C18_MalformedMessageIsSkipped ==
    /\ [](\A k \in 1..Len(requestTopic) :
            Malformed(requestTopic[k]) => DispatchedAt(k) = {})
    /\ [][\A w \in Workers :
            (/\ worker[w].pc = "process"
             /\ Malformed(requestTopic[worker[w].offset])
             /\ worker'[w] # worker[w])
                => /\ consumerErrors' = consumerErrors + 1
                   /\ resultSends' = resultSends
                   /\ dispatched' = dispatched
                   /\ storedOffsets' = storedOffsets
                   /\ committed' = committed
                   /\ worker'[w].pc = "recv"
       ]_vars

\* Three malformed records (no payload, not text, an unknown field) were
\* received and skipped: three errors counted, nothing dispatched or stored.
C18_Witness ==
    /\ delivered = 1..3
    /\ \A w \in Workers : worker[w].pc = "recv" /\ storedOffsets[w] = 0
    /\ consumerErrors = 3
    /\ dispatched = EmptyBag
    /\ requestTopic[1].payload = None
    /\ requestTopic[2].payload # None
    /\ ~ requestTopic[2].payload[1].valid_utf8
    /\ requestTopic[3].payload # None
    /\ requestTopic[3].payload[1].valid_utf8
    /\ Len(requestTopic[3].payload[1].text) = 4

\* C19 as stated: every message covered by the committed position had its
\* own result dispatched (store_offset is called after the dispatch only),
\* and no skipped malformed message is ever covered.
C19_OnlyStoredMessagesAreConsumed ==
    \A k \in 1..Len(requestTopic) :
        k <= committed
            => /\ DispatchedAt(k) # {}
               /\ ~ Malformed(requestTopic[k])

\* C19, amended: the committed position moves only to an offset that a
\* subscription stored with store_offset, so it is always the offset of a
\* well-formed message whose result was dispatched, and a message is
\* covered only if store_offset was called for it or for a later message of
\* the partition; skipping a malformed message moves neither a stored
\* offset nor the committed position.
C19_ConsumedUpToAStoredOffset ==
    /\ [](committed # 0
            => /\ committed \in 1..Len(requestTopic)
               /\ ~ Malformed(requestTopic[committed])
               /\ DispatchedAt(committed) # {})
    /\ [][/\ committed' # committed
             => \E w \in Workers : /\ storedOffsets[w] = committed'
                                   /\ storedOffsets[w] # 0
          /\ \A w \in Workers :
               (/\ worker[w].pc = "process"
                /\ Malformed(requestTopic[worker[w].offset])
                /\ worker'[w] # worker[w])
                   => committed' = committed /\ storedOffsets' = storedOffsets
       ]_vars

\* A malformed message was skipped, the next message was processed and its
\* offset stored and committed: the skipped message is covered.
C19_Witness ==
    /\ committed = 2
    /\ Malformed(requestTopic[1])
    /\ DispatchedAt(1) = {}
    /\ DispatchedAt(2) # {}
    /\ consumerErrors = 1

-----------------------------------------------------------------------------
\* Properties of the offsets against the result path (under LossSpec)

\* Offsets of the request messages of an operation.
RequestOffsets(id) ==
    {k \in 1..Len(requestTopic) :
        LET r == OperationRequestOf(requestTopic[k])
        IN  IF r = None THEN FALSE ELSE r[1].operation_id = id}

\* A result for the operation is still on its way: a worker holds one of
\* its requests before the dispatch, a dispatched send has not run, or a
\* result message waits on the result topic.
ResultPending(id) ==
    \/ \E w \in Workers : /\ worker[w].pc = "process"
                          /\ worker[w].offset \in RequestOffsets(id)
    \/ \E operation \in BagToSet(resultSends) : operation.operation_id = id
    \/ \E k \in (1..Len(resultTopic)) \ merged :
          LET m == DecodeResult(resultTopic[k])
          IN  IF m = None THEN FALSE ELSE m[1].operation_id = id

\* The operation is stored without result, every request published for it
\* is covered by the committed position, and no result is on its way.
ResultLost(id) ==
    /\ \E o \in operations : o.id = Some(id) /\ o.result = None
    /\ RequestOffsets(id) # {}
    /\ \A k \in RequestOffsets(id) : k \in delivered /\ k <= committed
    /\ ~ ResultPending(id)

\* C20: once the request of an operation is marked consumed and its result
\* has been lost (the send after the dispatch failed), the operation stays
\* without result through every step that publishes no new request for it.
C20_ConsumedRequestWithLostResultStaysLost ==
    [][\A id \in OperationIds :
         (ResultLost(id) /\ RequestOffsets(id)' = RequestOffsets(id))
             => ResultLost(id)'
      ]_vars

\* The request of an operation is covered by the committed position, the
\* send of its result failed, and no result for it ever reached the result
\* topic.
C20_Witness ==
    \E id \in OperationIds :
        /\ ResultLost(id)
        /\ \A k \in RequestOffsets(id) : DispatchedAt(k) # {}
        /\ \A k \in 1..Len(resultTopic) :
              LET m == DecodeResult(resultTopic[k])
              IN  IF m = None THEN TRUE ELSE m[1].operation_id # id

-----------------------------------------------------------------------------
\* Properties of the request publisher (under Spec)

\* The operations send_operation_request has been called for: the documents
\* of a job that its fan-out has read and handed to the handler.
Published ==
    {d \in inserted :
        \E s \in JobIds : /\ fanout[s].pc # "none"
                          /\ d.job_id = submit[s].job_id
                          /\ OperationIdOf(d) <= fanout[s].last}

\* C21: a call of send_operation_request leaves one pending send and
\* returns with the topic and both counters untouched; every send attempt
\* ends by incrementing exactly one of the two counters, a failed attempt
\* puts nothing on the topic, is not attempted again and changes nothing
\* of its caller; calls, pending sends and counters always add up to one
\* attempt per call.
C21_OneSendAttemptPerCall ==
    /\ [](/\ Cardinality(sends) + producerSent + producerErrors
                = Cardinality(Published)
          /\ producerSent = Len(requestTopic))
    /\ [][/\ \A s \in JobIds :
               (fanout[s].pc = "handle" /\ fanout'[s] # fanout[s])
                   => /\ sends' = sends \cup Range(fanout[s].batch)
                      /\ requestTopic' = requestTopic
                      /\ producerSent' = producerSent
                      /\ producerErrors' = producerErrors
          /\ sends' # sends /\ sends' \subseteq sends
               => /\ Cardinality(sends \ sends') = 1
                  /\ \/ /\ producerSent' = producerSent + 1
                        /\ producerErrors' = producerErrors
                        /\ Len(requestTopic') = Len(requestTopic) + 1
                     \/ /\ producerErrors' = producerErrors + 1
                        /\ producerSent' = producerSent
                        /\ requestTopic' = requestTopic
                  /\ UNCHANGED << submit, fanout, log, operations, jobs >>
          /\ (producerSent' # producerSent \/ producerErrors' # producerErrors)
               => sends' # sends /\ sends' \subseteq sends
       ]_vars

\* A send attempt failed and another succeeded after the handler had
\* answered: one error and one message counted, nothing pending, nothing
\* logged.
C21_Witness ==
    /\ producerErrors = 1
    /\ producerSent = 1
    /\ sends = {}
    /\ Cardinality(Published) = 2
    /\ log = {}

-----------------------------------------------------------------------------
\* Properties of the worker pool (under WorkerSpec)

\* The subscriptions that hold message k between recv and the end of its
\* processing.
Holders(k) == {w \in Workers : worker[w].pc # "recv" /\ worker[w].offset = k}

\* C22: there are exactly 10 subscriptions; a subscription takes a message
\* only when it waits in recv, after the message it held before has been
\* skipped as malformed or has had its result dispatched and its offset
\* store attempted; every delivered message is held by at most one
\* subscription, and one that is held by none has finished.
C22_OneMessageAtATimePerSubscription ==
    /\ [](/\ Cardinality(Workers) = 10
          /\ DOMAIN worker = Workers
          /\ \A k \in delivered :
               /\ Cardinality(Holders(k)) <= 1
               /\ Holders(k) = {} /\ ~ Malformed(requestTopic[k])
                      => DispatchCount(k) = 1)
    /\ [][\A w \in Workers :
            /\ (worker'[w].pc = "process" /\ worker'[w] # worker[w])
                 => /\ worker[w] = [pc |-> "recv", offset |-> 0]
                    /\ worker'[w].offset \in delivered' \ delivered
            /\ (worker[w].pc # "recv" /\ worker'[w] # worker[w])
                 => /\ worker'[w].offset \in {worker[w].offset, 0}
                    /\ worker'[w].offset = 0 <=> worker'[w].pc = "recv"
            /\ (worker[w].pc = "process" /\ worker'[w] # worker[w])
                 => worker'[w].pc \in {"store_offset", "recv"}
            /\ (worker[w].pc = "store_offset" /\ worker'[w] # worker[w])
                 => worker'[w].pc = "recv"
       ]_vars

\* Two subscriptions work on different messages at the same time, one of
\* them on its second message.
C22_Witness ==
    \E w, v \in Workers :
        /\ w # v
        /\ worker[w].pc = "process" /\ worker[w].offset = 2
        /\ worker[v].pc = "process" /\ worker[v].offset = 3
        /\ delivered = 1..3
        /\ Holders(1) = {}

-----------------------------------------------------------------------------
\* Properties of get_batch_operations (under StreamSpec)

\* The job's operations in the store up to the last one the cursor yielded,
\* in id order.
StoredUpToLast ==
    LET docs == {o \in OperationsOf(stream.job_id) :
                    OperationIdOf(o) <= stream.last}
    IN  TakeInOrder(docs, Cardinality(docs))

\* C23: when a call of get_batch_operations has returned Ok, the handler
\* has been invoked for exactly the documents the cursor yielded, once each
\* and in the cursor's order; they all carry the job id of the call and
\* are the job's stored operations from the first one on, also when the
\* call is not the first one.
C23_HandlerSeesEachOperationOnceInOrder ==
    /\ [](IsOk(stream.result)
            => /\ stream.handled = stream.returned
               /\ stream.handled = StoredUpToLast
               /\ \A i \in 1..Len(stream.handled) :
                    /\ stream.handled[i].job_id = stream.job_id
                    /\ \A k \in 1..Len(stream.handled) :
                         i # k => stream.handled[i] # stream.handled[k])
    /\ [][stream'.calls # stream.calls
            => /\ stream'.last = 0
               /\ stream'.handled = <<>>
               /\ stream'.returned = <<>>]_vars

\* A second call with batch size 2 has returned Ok for a job of three
\* operations (a full chunk and a shorter last one) while the store also
\* holds operations of another job.
C23_Witness ==
    /\ stream.calls = 2
    /\ IsOk(stream.result)
    /\ stream.batch_size = 2
    /\ Len(stream.handled) = 3
    /\ \E o \in operations : o.job_id # stream.job_id

\* C24: when the cursor fails the call returns that error; the handler has
\* been invoked for the documents of the chunks read completely, in order,
\* and for none of the chunk that was being read; after the error the call
\* invokes no handler, and what was handled stays handled until the call
\* ends.
C24_CursorErrorStopsTheStream ==
    /\ [](IsErr(stream.result)
            => /\ stream.result = Some(Err("Storage"))
               /\ stream.pc = "done"
               /\ Len(stream.handled)
                      = (Len(stream.returned) \div stream.batch_size)
                            * stream.batch_size
               /\ stream.handled
                      = SubSeq(stream.returned, 1, Len(stream.handled)))
    /\ [][stream'.calls = stream.calls
            => /\ IsErr(stream.result) => stream' = stream
               /\ Len(stream.handled) <= Len(stream'.handled)
               /\ stream.handled
                      = SubSeq(stream'.handled, 1, Len(stream.handled))]_vars

\* With batch size 2 the cursor failed after yielding three documents: the
\* first two were handled, the third was not.
C24_Witness ==
    /\ IsErr(stream.result)
    /\ stream.batch_size = 2
    /\ Len(stream.returned) = 3
    /\ Len(stream.handled) = 2

-----------------------------------------------------------------------------
\* Properties of get_operation and update_operation (under LookupSpec)

\* The last call without the value it returned: the function, its
\* arguments and whether it succeeded.
LookupKey ==
    << lookup.call, lookup.job_id, lookup.operation_id, lookup.result,
       IsOk(lookup.response) >>

\* C25: a call of get_operation or update_operation with an operation id
\* succeeds exactly when the store holds an operation with that id under
\* the job id of the call; when the id is stored under another job or not
\* at all the call fails with NotFound, and every failing call leaves the
\* store unchanged. get_operation returns the stored document.
C25_FoundOnlyUnderItsJob ==
    /\ [](IsOk(lookup.response)
            => \E d \in inserted : /\ d.id = Some(lookup.operation_id)
                                   /\ d.job_id = lookup.job_id)
    /\ [][LookupKey' # LookupKey
            => LET found == {o \in operations :
                                /\ o.id = Some(lookup'.operation_id)
                                /\ o.job_id = lookup'.job_id}
               IN  /\ IsErr(lookup'.response)
                        => operations' = operations /\ jobs' = jobs
                   /\ lookup'.call = "get" => operations' = operations
                   /\ lookup'.operation_id # 0
                        => IF found = {}
                           THEN lookup'.response = Some(Err("NotFound"))
                           ELSE /\ IsOk(lookup'.response)
                                /\ lookup'.call = "get"
                                     => lookup'.response[1][2] \in found
       ]_vars

\* update_operation failed with NotFound for the id of an operation that
\* is stored under another job, whose job also exists.
C25_Witness ==
    /\ lookup.call = "update"
    /\ lookup.response = Some(Err("NotFound"))
    /\ \E o \in operations : /\ o.id = Some(lookup.operation_id)
                             /\ o.job_id # lookup.job_id
    /\ \E j \in jobs : j.id = Some(lookup.job_id)

-----------------------------------------------------------------------------
\* Properties of PageParams (under PageSpec)

\* C26: for every combination of page and size parameters the size handed
\* to the store is between 1 and 100: 30 when size is absent, 1 when it is
\* 0, 100 when it is above 100, the given value otherwise; the page is 1
\* when page is absent and the given value otherwise.
C26_PageAndSizeDefaultsAndClamp ==
    page.effective # None
        => LET given == page.params
               used  == page.effective[1]
           IN  /\ used.size \in 1..100
               /\ given.size = None => used.size = 30
               /\ given.size = Some(0) => used.size = 1
               /\ (given.size # None /\ given.size # Some(0))
                      => used.size = IF given.size[1] > 100 THEN 100
                                     ELSE given.size[1]
               /\ given.page = None => used.page = 1
               /\ given.page # None => used.page = given.page[1]

\* A request without page and with size 101 was read as page 1, size 100.
C26_Witness ==
    /\ page.params = [page |-> None, size |-> Some(101)]
    /\ page.effective = Some([page |-> 1, size |-> 100])

-----------------------------------------------------------------------------
\* Properties of the wire encoding (under WireSpec)

\* C27: reading the text written for a request or a result message
\* succeeds and gives a message equal to the one written, field by field.
C27_WireEncodingRoundTrips ==
    wire.decoded # None
        => /\ wire.decoded[1] # None
           /\ wire.decoded[1][1].job_id = wire.message.job_id
           /\ wire.decoded[1][1].operation_id = wire.message.operation_id
           /\ wire.kind = "request"
                  => wire.decoded[1][1].request = wire.message.request
           /\ wire.kind = "result"
                  => wire.decoded[1][1].result = wire.message.result

\* A result message with an empty result and a quote in its job id was
\* written and read back.
C27_Witness ==
    /\ wire.kind = "result"
    /\ wire.message.result = <<>>
    /\ wire.message.job_id = <<"\"">>
    /\ wire.text # None
    /\ wire.decoded = Some(Some(wire.message))

-----------------------------------------------------------------------------
\* Properties of the merge order (under MergeOrderSpec)

\* C29: once the results of all operations of a job have been merged, the
\* stored operations are the inserted ones, each with the result of its own
\* request, and the status derived from the completed count is Completed,
\* in whatever order the results were merged.
C29_MergeOrderDoesNotMatter ==
    \A s \in JobIds :
        (/\ submit[s].pc \notin {"idle", "insert_operations"}
         /\ \A o \in OperationsOf(submit[s].job_id) : o.result # None)
            => /\ OperationsOf(submit[s].job_id)
                    = {[d EXCEPT !.result = Some(WorkerResult(d.request))] :
                          d \in {x \in inserted :
                                    x.job_id = submit[s].job_id}}
               /\ CountCompleted(submit[s].job_id)
                    = Len(Lines(submit[s].body))
               /\ FindJob(submit[s].job_id) # None
               /\ JobStatus(FindJob(submit[s].job_id)[1],
                            CountCompleted(submit[s].job_id)) = "Completed"

\* The three results of a job were merged with the first operation's
\* result arriving last.
C29_Witness ==
    /\ Cardinality(OperationsOf(1)) = 3
    /\ \A o \in operations : o.result # None
    /\ lookup.call = "update"
    /\ lookup.operation_id = 1

-----------------------------------------------------------------------------
\* Frame of update_operation (under LookupSpec)

\* C30: a job document keeps the operation count it was inserted with, the
\* number of lines of its submission; a call of update_operation that
\* changes the store changes the result of the one operation matching the
\* call's job id and operation id and leaves that operation's id, job id
\* and request, every other operation and every job as they were.
C30_UpdateChangesOnlyTheResult ==
    /\ [](\A s \in JobIds : \A j \in jobs :
            j.id = Some(submit[s].job_id)
                => j.operations = Len(Lines(submit[s].body)))
    /\ [][/\ \A j \in jobs : \A k \in jobs' :
               k.id = j.id => k.operations = j.operations
          /\ (/\ lookup'.call = "update"
              /\ nextOperationId' = nextOperationId
              /\ (LookupKey' # LookupKey \/ operations' # operations))
                => /\ jobs' = jobs
                   /\ inserted' = inserted
                   /\ \/ operations' = operations
                      \/ \E o \in operations :
                           /\ o.id = Some(lookup'.operation_id)
                           /\ o.job_id = lookup'.job_id
                           /\ operations'
                                = (operations \ {o})
                                    \cup {[o EXCEPT !.result =
                                               Some(lookup'.result)]}
       ]_vars

\* An update set the result of one operation of a two-operation job while
\* the other operation and a second job are stored.
C30_Witness ==
    /\ lookup.call = "update"
    /\ IsOk(lookup.response)
    /\ Cardinality(jobs) = 2
    /\ \E o, p \in OperationsOf(lookup.job_id) :
         /\ o.id = Some(lookup.operation_id)
         /\ o.result = Some(lookup.result)
         /\ o.request # ""
         /\ p # o
         /\ p.result = None

-----------------------------------------------------------------------------
\* Properties of the trace context (under TraceSpec)

\* The context of the sending span of the request at offset k.
SentContext(k) ==
    [span |-> "messaging.send",
     operation_id |-> OperationRequestOf(requestTopic[k])[1].operation_id]

\* C28: with tracing enabled in the client every request message carries
\* the context of the span that sent it as traceparent header, and with
\* tracing disabled it carries no headers; with tracing enabled in the
\* server the span opened for a received message has the context found in
\* the message's headers as parent, which is exactly the sender's when the
\* client attached it, and with tracing disabled in the server the span is
\* given no parent. One span is opened for each message received.
C28_TraceContextCrossesTheBroker ==
    /\ \A k \in 1..Len(requestTopic) :
         LET headers == requestTopic[k].headers
         IN  IF tracing.client
             THEN /\ headers # None
                  /\ \E i \in 1..Len(headers[1]) :
                       headers[1][i] = <<"traceparent", SentContext(k)>>
                  /\ \A i \in 1..Len(headers[1]) :
                       headers[1][i][1] = "traceparent"
                           => headers[1][i][2] = SentContext(k)
             ELSE headers = None
    /\ {sp.offset : sp \in spans} = delivered
    /\ Cardinality(spans) = Cardinality(delivered)
    /\ \A sp \in spans :
         sp.parent = IF tracing.client /\ tracing.server
                     THEN Some(SentContext(sp.offset))
                     ELSE None

\* With tracing enabled on both sides the spans of two received messages
\* have the contexts of their two sending spans as parents.
C28_Witness ==
    /\ tracing = [client |-> TRUE, server |-> TRUE]
    /\ \E sp, sq \in spans :
         /\ sp.offset # sq.offset
         /\ sp.parent = Some(SentContext(sp.offset))
         /\ sq.parent = Some(SentContext(sq.offset))
         /\ sp.parent # sq.parent

-----------------------------------------------------------------------------
\* The completed count (under CountSpec)

\* C31: for every job in the job collection the number of its completed
\* operations is at most the job's operations count, whatever submissions,
\* failed bulk inserts, deletions and result merges have happened.
C31_CompletedCountIsBounded ==
    \A j \in jobs : CountCompleted(JobIdOf(j)) <= j.operations

\* A job whose bulk insert failed after persisting one of its two
\* operations is still stored (the compensation failed too), its one
\* operation is completed, and a job with all operations completed exists.
C31_Witness ==
    /\ \E s \in JobIds :
         /\ submit[s].insert_err
         /\ FindJob(submit[s].job_id) # None
         /\ FindJob(submit[s].job_id)[1].operations = 2
         /\ CountCompleted(submit[s].job_id) = 1
    /\ \E j \in jobs :
         /\ j.operations >= 1
         /\ CountCompleted(JobIdOf(j)) = j.operations

-----------------------------------------------------------------------------
\* Stability of Completed (under StatusSpec)

\* C32: once get_job has reported Completed for a job, every later get_job
\* of that job that succeeds reports Completed too, whatever results are
\* merged in between.
C32_CompletedIsStable ==
    (/\ getJob.pc = "done"
     /\ IsOk(getJob.response)
     /\ getJob.job_id \in reported)
        => getJob.response[1][2].status = "Completed"

-----------------------------------------------------------------------------
\* Status after a submission (under StatusSpec)

\* C33: when get_job answers for a job whose submission has been answered
\* with success after both inserts succeeded, and no operation of the job
\* has a result yet, the status it reports is the status of the submission
\* response, for a body of any number of lines, none included.
C33_StatusAfterSubmissionIsInProgress ==
    [][\A s \in JobIds :
        (/\ getJob.pc = "count"
         /\ getJob'.pc = "done"
         /\ submit[s].pc = "done"
         /\ IsOk(submit[s].response)
         /\ ~ submit[s].insert_err
         /\ submit[s].job_id = getJob.job_id
         /\ \A o \in OperationsOf(getJob.job_id) : o.result = None)
            => /\ IsOk(getJob'.response)
               /\ getJob'.response[1][2].status
                      = submit[s].response[1][2].status
      ]_vars

-----------------------------------------------------------------------------
\* The skip offset (under SkipSpec)

\* C34: whenever get_jobs or get_operations has been called with the page
\* and the clamped size of a query string, the call computed the skip
\* offset (page - 1) * size, a number of usize, and did not panic.
C34_SkipIsPageMinusOneTimesSize ==
    list.pc # "idle"
        => /\ list.response # Some(Err("panic"))
           /\ list.skip = (list.page - 1) * list.page_size
           /\ list.skip \in 0..USIZE_MAX

-----------------------------------------------------------------------------
\* The page of operations (under ListSpec)

\* C36: when get_operations answers, its total is the number of documents
\* of the whole operation collection, whatever job was asked for, and its
\* items are distinct stored operations of the job asked for, at most
\* page_size of them.
C36_TotalIsCollectionWide ==
    [][(list.pc = "count" /\ list'.pc = "done")
        => LET r == list'.response[1][2]
           IN  /\ IsOk(list'.response)
               /\ r.total = Cardinality(operations)
               /\ Len(r.items) <= list.page_size
               /\ \A i \in 1..Len(r.items) :
                    /\ r.items[i].job_id = list.job_id
                    /\ r.items[i] \in inserted
               /\ \A i, k \in 1..Len(r.items) :
                    r.items[i] = r.items[k] => i = k
      ]_vars

\* A full page of a job that has more operations than the page holds, with
\* a total that also counts the operations of another job.
C36_Witness ==
    /\ list.pc = "done"
    /\ IsOk(list.response)
    /\ Len(list.response[1][2].items) = list.page_size
    /\ Cardinality(OperationsOf(list.job_id)) > list.page_size
    /\ list.response[1][2].total > Cardinality(OperationsOf(list.job_id))
    /\ list.response[1][2].total = Cardinality(operations)

-----------------------------------------------------------------------------
\* Two deletions of one job (under DeleteRaceSpec)

\* The DELETE requests for job_id whose call of delete_job has returned.
Answered(job_id) ==
    {d \in JobIds : del[d].pc # "idle" /\ del[d].job_id = job_id}

\* C35: of the DELETE requests for one job at most one succeeds, and only
\* that one spawns the deletion of the operations; once two requests for a
\* job that was stored have both called delete_job without a storage
\* error, exactly one of them has succeeded and the other one is answered
\* NotFound and spawns nothing.
C35_JobIsDeletedAtMostOnce ==
    /\ \A j \in JobIds :
         /\ Cardinality(Deleters(j)) <= 1
         /\ (\E c \in cascade : c.job_id = j)
                => \E d \in Deleters(j) : del[d].pc \in {"respond", "done"}
         /\ \A d \in Answered(j) \ Deleters(j) :
                /\ del[d].pc = "done"
                /\ IsErr(del[d].response)
                /\ ~ ENABLED DeleteSpawn(d)
    /\ \A d, e \in Answered(1) :
         (/\ d # e
          /\ del[d].response # Some(Err("Storage"))
          /\ del[e].response # Some(Err("Storage")))
            => /\ Cardinality(Deleters(1)) = 1
               /\ \A x \in {d, e} \ Deleters(1) :
                    del[x].response = Some(Err("NotFound"))

\* Two DELETE requests for the stored job: the second one was answered
\* NotFound while the first one, which removed the job, has not yet spawned
\* the deletion of the operations.
C35_Witness ==
    /\ del[1].job_id = 1
    /\ del[1].pc = "spawn"
    /\ del[2].job_id = 1
    /\ del[2].response = Some(Err("NotFound"))
    /\ cascade = {}
    /\ operations # {}

-----------------------------------------------------------------------------
\* The receive loop after an error (under LoopSpec)

\* C37: every subscription is always inside its loop, at a point where it
\* can go on: when it holds a message its next step is enabled, and when it
\* waits in recv it can take the next message of the partition as soon as
\* there is one. A failed receive, a record that does not decode and a
\* failed store_offset each add one to the error counter and leave the
\* subscription in recv.
C37_WorkerLoopGoesOnAfterErrors ==
    /\ [](\A w \in Workers :
            /\ worker[w].pc \in {"recv", "process", "store_offset"}
            /\ worker[w].pc = "process"
                   => ENABLED (WorkerProcess(w) \/ WorkerDecodeErr(w))
            /\ worker[w].pc = "store_offset"
                   => ENABLED (WorkerStoreOffset(w) \/ WorkerStoreOffsetErr(w))
            /\ (/\ \A v \in Workers : worker[v].pc = "recv"
                /\ (1..Len(requestTopic)) \ delivered # {})
                   => \E v \in Workers, k \in 1..Len(requestTopic) :
                          ENABLED WorkerRecv(v, k))
    /\ [][/\ \A w \in Workers :
               (/\ worker[w].pc = "process"
                /\ worker'[w] # worker[w]
                /\ Malformed(requestTopic[worker[w].offset]))
                   => /\ consumerErrors' = consumerErrors + 1
                      /\ worker'[w].pc = "recv"
          /\ \A w \in Workers :
               (/\ worker[w].pc = "store_offset"
                /\ worker'[w] # worker[w]
                /\ storedOffsets'[w] # worker[w].offset)
                   => /\ consumerErrors' = consumerErrors + 1
                      /\ worker'[w].pc = "recv"
          /\ consumerErrors' # consumerErrors
               => /\ consumerErrors' = consumerErrors + 1
                  /\ \A w \in Workers :
                       worker'[w] # worker[w] => worker'[w].pc = "recv"
                  /\ worker' = worker
                       => /\ \E w \in Workers : worker[w].pc = "recv"
                          /\ UNCHANGED << delivered, storedOffsets,
                                          dispatched, requestTopic >>
        ]_vars

\* Every subscription waits in recv after one failed receive, one record
\* that did not decode and one failed store_offset, and a further message
\* waits on the partition.
C37_Witness ==
    /\ \A w \in Workers : worker[w].pc = "recv"
    /\ delivered = 1..2
    /\ Len(requestTopic) = 3
    /\ Cardinality({k \in delivered : Malformed(requestTopic[k])}) = 1
    /\ \A w \in Workers : storedOffsets[w] = 0
    /\ consumerErrors = 3

-----------------------------------------------------------------------------
\* The tracing decision (under OtelSpec)

\* C38: every call of should_instrument_kafka in a process returns the same
\* value, the one decided from the environment as it was at the first call,
\* whatever the environment has become since; that value is false exactly
\* when OTEL_TRACES_SAMPLER was always_off or parentbased_always_off or
\* OTEL_TRACES_SAMPLER_ARG was "0".
C38_TracingDecisionIsComputedOnce ==
    \A i \in 1..Len(otel.returned) :
        /\ otel.first_env # None
        /\ otel.returned[i] = otel.returned[1]
        /\ otel.returned[i] = FALSE
               <=> \/ otel.first_env[1].OTEL_TRACES_SAMPLER
                          = Some("always_off")
                   \/ otel.first_env[1].OTEL_TRACES_SAMPLER
                          = Some("parentbased_always_off")
                   \/ otel.first_env[1].OTEL_TRACES_SAMPLER_ARG = Some("0")

\* Two calls returned true although the sampler was set to always_off
\* between them.
C38_Witness ==
    /\ Len(otel.returned) = 2
    /\ otel.returned[2] = TRUE
    /\ otel.env.OTEL_TRACES_SAMPLER = Some("always_off")
    /\ otel.first_env # None
    /\ otel.first_env[1].OTEL_TRACES_SAMPLER # Some("always_off")

====
